---- MODULE Spec2Model ----
(***************************************************************************)
(* A model of the conversational turn pipeline of the Gemini chat agent:   *)
(*   - GeminiAgent.process_message / process_audio_message (src/src/agent.py) *)
(*   - RateLimiter.is_allowed                     (src/src/database.py)    *)
(*   - ChatMemory.get_history / add_interaction   (src/src/database.py)    *)
(* Each component has its own specification over the shared variables; the *)
(* variables of the other components keep their initial values.            *)
(***************************************************************************)
EXTENDS Integers, Sequences, FiniteSets, TLC

(***************************************************************************)
(* The state.                                                              *)
(***************************************************************************)

\* The turn orchestrator (agent.py).
VARIABLES
    pc,              \* position of the running turn inside agent.py
    entry,           \* entry point of the turn: "none", "message", "audio"
    username_email,  \* process_message's username and email are both truthy
    transcribed_text,\* process_audio_message's local, "None" before transcription
    response,        \* the last response of chat.send_message_async
    iteration,       \* process_message's loop counter
    function_result, \* the last string returned by execute_function
    result,          \* the result dictionary handed back to the caller
    attachment,      \* process_message's file_url and file_type, by their kind
    current_message, \* process_message's local: the text submitted and persisted
    calls            \* what the collaborators saw in this turn (call log)

varsTurn == <<pc, entry, username_email, transcribed_text, response, iteration,
              function_result, result, attachment, current_message, calls>>

\* The rate limiter (database.py, RateLimiter) and the cache client.
VARIABLES
    redis_client,  \* what get_redis returns: "None" or "client"
    rate_limit,    \* the key rate_limit:<user_id> in the backend, or NoKey
    lim,           \* per caller: position in is_allowed and its locals
    window         \* what happened since the current window began (call log)

varsLimiter == <<redis_client, rate_limit, lim, window>>

\* The conversation store (database.py, ChatMemory) of one session_id.
VARIABLES
    messages,   \* the rows of the history table, in the order they were committed
    cache,      \* the entry chat_history:<session_id>, or NoEntry
    now,        \* the database clock
    task,       \* per task: the ChatMemory call it runs and its locals
    store       \* what happened in the run (call log)

varsStore == <<messages, cache, now, task, store>>

\* The transport adapter (slack_handler.py, handle_message), one event at a time.
VARIABLES
    hpc,       \* position of the running event inside handle_message
    event,     \* the kind of the Slack event: "none", "ignored", "message", "audio"
    allowed,   \* handle_message's local: the first component of is_allowed's answer
    slack      \* what was posted to the channel for this event, and what failed

varsHandler == <<hpc, event, allowed, slack>>

\* The two backends as all identities share them (database.py): one history
\* table and one Redis keyspace.
VARIABLES
    history_table, \* the rows of the history table of every session, in commit order
    keys,      \* the Redis keyspace: what each key holds, or Absent
    who        \* per identity: the operation it runs and its locals

varsShared == <<history_table, keys, who>>

\* The tools (tools/calculator.py, document_analysis.py, web_search.py).
VARIABLES
    tool       \* the tool call in progress: the tool, its input and what it returned

varsTools == <<tool>>

\* The module globals of database.py and what stands behind them.
VARIABLES
    settings,       \* settings.redis_url as init_redis finds it: "unread", "set" or "unset"
    _redis_client,  \* database.py:15: "None" or the client object
    redis_server,   \* connected: a ping has succeeded; failed: a connection attempt has failed
    redis_caller,   \* per caller of get_redis and init_redis: where it is and what it returned
    _db_pool,       \* database.py:14: 0 for None, or the number of the pool
    pools,          \* the pools asyncpg.create_pool has made so far
    pool_caller,    \* per caller of get_db_pool and init_db_pool: where it is, its pool
    logs_table,     \* the request-log table: one peticiones value per row of the identity
    logs_schema,    \* the table's unique constraint on userid: "unread", "unique" or "plain"
    log_caller,     \* per caller of log_request: where it is and what its SELECT found
    logged          \* started: log_request calls begun; done: calls whose statement succeeded

varsGlobals == <<settings, _redis_client, redis_server, redis_caller, _db_pool, pools,
                 pool_caller, logs_table, logs_schema, log_caller, logged>>

vars == <<varsTurn, varsLimiter, varsStore, varsHandler, varsShared, varsTools, varsGlobals>>

(***************************************************************************)
(* Part 1.  The turn orchestrator (agent.py).                              *)
(***************************************************************************)

\* agent.py:248
max_iterations == 5

\* The tool names declared to the model (agent.py:72-155) and one the
\* dispatcher does not know.
FunctionNames ==
    {"calculator", "web_search", "image_analysis", "image_generation",
     "document_analysis", "unknown"}

\* Tools whose returned text is taken verbatim from outside the program: the
\* provider's answer (web_search.py:44-45), the vision model's text
\* (image_analysis.py:71), the document's own text (document_analysis.py:263-268).
VerbatimTools == {"web_search", "image_analysis", "document_analysis"}

\* What chat.send_message_async can deliver: a response without candidates,
\* one whose first candidate has no parts, one whose first part is text, or one
\* whose first part is a function call (with or without its required argument).
NoResponse == [kind |-> "none", name |-> "", args |-> FALSE]

Responses ==
    {[kind |-> k, name |-> "", args |-> FALSE] : k \in {"no_candidates", "no_parts", "text", "empty_text"}}
    \cup [kind : {"function_call"}, name : FunctionNames, args : BOOLEAN]

\* The strings execute_function can return, by their shape.
\*   "marker"       "__IMAGE_GENERATION__:<prompt>"          (agent.py:185)
\*   "text"         a tool's text that does not begin with the marker
\*   "marker_text"  a tool's text that begins with "__IMAGE_GENERATION__:"
\*   "unknown"      "Unknown function: <name>"                (agent.py:192)
\*   "error"        "Error executing <name>: <e>"             (agent.py:195)
FunctionResults == {"marker", "text", "marker_text", "unknown", "error"}

\* The outcomes a tool's execute can have, seen from the dispatcher.
ToolOutcomes(name) ==
    IF name \in VerbatimTools THEN {"text", "marker_text", "raise"}
    ELSE IF name = "calculator" THEN {"text", "raise"}
    ELSE {"none"}

\* A dispatcher that answers an image request like any other tool's text.
execute_function_no_marker(call, outcome) ==
    IF call.name = "unknown" THEN "unknown"
    ELSE IF ~call.args THEN "error"
    ELSE IF call.name = "image_generation" THEN "text"
    ELSE IF outcome = "raise" THEN "error"
    ELSE outcome

\* GeminiAgent.execute_function (agent.py:166-195): the returned string for a
\* function call and the outcome of the tool it dispatches to.  A missing
\* required argument is a KeyError inside the try block.
execute_function(call, outcome) ==
    IF call.name = "unknown" THEN "unknown"
    ELSE IF ~call.args THEN "error"
    ELSE IF call.name = "image_generation" THEN "marker"
    ELSE IF outcome = "raise" THEN "error"
    ELSE outcome

\* function_result.startswith("__IMAGE_GENERATION__:")  (agent.py:259)
startswith_marker(fr) == fr \in {"marker", "marker_text"}

\* The texts a result can carry.
TextNone == "None"
TextModel == "response.text"
TextEmpty == ""
TextImage == "He generado la imagen: <prompt>"
TextImageError == "Error al generar la imagen: <e>"
TextSorry == "Lo siento, ocurrio un error: <e>"
TextTranscribeError == "Error al transcribir el audio: <e>"
TextTranscript == "<transcript>"
TextTranscriptError == "Error <transcript>"
TextMessage == "<message>"

\* file_url and file_type of process_message by the branch they take
\* (agent.py:238-242): no file_url; a file_type that starts with "image/";
\* another non-empty file_type; a file_url whose file_type is None or empty.
Attachments == {"none", "image", "file", "untyped"}

\* The bracketed descriptor appended for an attachment (agent.py:240, 242).
Descriptor(a) ==
    CASE a = "image" -> "[Imagen adjunta: <file_url>]"
      [] a = "file" -> "[Archivo adjunto: <file_url>]"
      [] OTHER -> ""

\* current_message (agent.py:237-242): the message text and what was appended.
NoMessage == [text |-> TextNone, appended |-> ""]

BuildMessage(message, a) == [text |-> message, appended |-> Descriptor(a)]

\* Python truthiness of result["text"] (agent.py:288, 324).
truthy(text) == text \notin {TextNone, TextEmpty}

\* agent.py:211-216
NewResult ==
    [text |-> TextNone, image_bytes |-> FALSE, audio_bytes |-> FALSE,
     needs_audio_response |-> FALSE]

NewCalls ==
    [submissions |-> 0,      \* chat.send_message_async calls
     tool_calls |-> 0,       \* execute_function calls
     image_calls |-> 0,      \* image_generation.execute calls
     image_ok |-> FALSE,     \* the image provider returned an image
     writes |-> 0,           \* add_interaction calls that committed
     add_failed |-> FALSE,   \* add_interaction raised
     answer |-> TextNone,    \* result["text"] when add_interaction was called
     handler |-> FALSE,      \* the except block of process_message ran
     only_tools |-> TRUE,    \* every response so far called a non-image tool
     image_req |-> 0,        \* submissions when image_generation was requested
     image_req_prompt |-> FALSE,  \* that request carried its prompt
     image_req_iter |-> 0,   \* iteration when that request arrived
     read_failed |-> FALSE,  \* memory.get_history raised
     stored |-> <<>>,        \* the arguments of the add_interaction that committed
     processed |-> FALSE,    \* process_message was entered
     synth |-> "none",       \* audio_generator.execute: "none", "ok", "failed"
     synth_text |-> TextNone,  \* result["text"] when the synthesis was called
     sent |-> NoMessage]     \* the argument of the first chat.send_message_async

InitTurn ==
    /\ pc = "idle"
    /\ entry = "none"
    /\ username_email = FALSE
    /\ transcribed_text = TextNone
    /\ response = NoResponse
    /\ iteration = 0
    /\ function_result = "none"
    /\ result = NewResult
    /\ attachment = "none"
    /\ current_message = NoMessage
    /\ calls = NewCalls

\* Where control goes when process_message returns: to the caller of the
\* message entry point, or back into process_audio_message (agent.py:316-324).
AfterProcessMessage == IF entry = "audio" THEN "audio_response" ELSE "returned"

\* An except block that logs and raises again.
ReraiseExcept(c) ==
    /\ pc' = "raised"
    /\ UNCHANGED result
    /\ calls' = [c EXCEPT !.handler = TRUE]

\* An except block that stores the apology as the turn's exchange.
ExceptAndStore(c) ==
    /\ pc' = AfterProcessMessage
    /\ result' = [result EXCEPT !.text = TextSorry]
    /\ calls' = [c EXCEPT !.handler = TRUE, !.writes = @ + 1,
                          !.stored = <<current_message, TextSorry>>]

\* The except block of process_message (agent.py:296-299).
\* c is the call log up to the statement that raised.
TopLevelExcept(c) ==
    /\ pc' = AfterProcessMessage
    /\ result' = [result EXCEPT !.text = TextSorry]
    /\ calls' = [c EXCEPT !.handler = TRUE]

\* The entry of process_message: its arguments and a new result dictionary
\* (agent.py:197-221).
StartMessage ==
    /\ pc = "idle"
    /\ entry' = "message"
    /\ \E ue \in BOOLEAN :
         /\ username_email' = ue
         /\ pc' = IF ue THEN "log_request" ELSE "get_history"
    /\ \E a \in Attachments : attachment' = a
    /\ current_message' = NoMessage
    /\ result' = NewResult
    /\ calls' = [NewCalls EXCEPT !.processed = TRUE]
    /\ UNCHANGED <<transcribed_text, response, iteration, function_result>>

\* process_message called by any caller.
process_message ==
    /\ StartMessage
    /\ UNCHANGED <<varsLimiter, varsStore, varsHandler, varsShared, varsTools, varsGlobals>>

\* await self.logs_manager.log_request(...) (agent.py:220-221).  log_request
\* swallows its own failures except one of get_db_pool (database.py:190).
log_request ==
    /\ pc = "log_request"
    /\ \/ /\ pc' = "get_history"
          /\ UNCHANGED <<result, calls>>
       \/ TopLevelExcept(calls)
    /\ UNCHANGED <<entry, username_email, transcribed_text, response, iteration,
                   function_result>>
    /\ UNCHANGED <<attachment, current_message>>
    /\ UNCHANGED <<varsLimiter, varsStore, varsHandler, varsShared, varsTools, varsGlobals>>

\* A turn that goes on with an empty history when the read fails.
GetHistoryIgnored(c) ==
    /\ pc' = "send_message"
    /\ UNCHANGED result
    /\ calls' = [c EXCEPT !.read_failed = TRUE]

\* memory.get_history raises inside the try block (agent.py:225, 296-299).
GetHistoryRaises(c) == TopLevelExcept([c EXCEPT !.read_failed = TRUE])

\* The message process_message works on: its message argument, which is the
\* transcript on the audio path (agent.py:316-321).
MessageArgument == IF entry = "audio" THEN transcribed_text ELSE TextMessage

\* history = await memory.get_history() and the building of current_message
\* (agent.py:224-242): the window, or a durable-storage error.
memory_get_history ==
    /\ pc = "get_history"
    /\ \/ /\ pc' = "send_message"
          /\ current_message' = BuildMessage(MessageArgument, attachment)
          /\ UNCHANGED <<result, calls>>
       \/ /\ GetHistoryRaises(calls)
          /\ UNCHANGED current_message
    /\ UNCHANGED attachment
    /\ UNCHANGED <<entry, username_email, transcribed_text, response, iteration,
                   function_result>>
    /\ UNCHANGED <<varsLimiter, varsStore, varsHandler, varsShared, varsTools, varsGlobals>>

\* The call log after a submission that the model answered with r.
Submitted(r) ==
    [calls EXCEPT
       !.submissions = @ + 1,
       !.only_tools = @ /\ r.kind = "function_call" /\ r.name # "image_generation",
       !.image_req = IF @ = 0 /\ r.kind = "function_call" /\ r.name = "image_generation"
                     THEN calls.submissions + 1 ELSE @,
       !.image_req_prompt = IF calls.image_req = 0 /\ r.kind = "function_call"
                               /\ r.name = "image_generation"
                            THEN r.args ELSE @]

\* response = await chat.send_message_async(current_message) (agent.py:245-249).
send_message ==
    /\ pc = "send_message"
    /\ \/ \E r \in Responses :
            /\ response' = r
            /\ calls' = [Submitted(r) EXCEPT !.image_req_iter = 0,
                                            !.sent = current_message]
            /\ iteration' = 0
            /\ pc' = "while"
            /\ UNCHANGED result
       \/ /\ TopLevelExcept([calls EXCEPT !.only_tools = FALSE])
          /\ UNCHANGED <<response, iteration>>
    /\ UNCHANGED <<entry, username_email, transcribed_text, function_result>>
    /\ UNCHANGED <<attachment, current_message>>
    /\ UNCHANGED <<varsLimiter, varsStore, varsHandler, varsShared, varsTools, varsGlobals>>

\* One evaluation of the while condition and of the branch on the first part
\* (agent.py:251-256, 283-285).
while_loop ==
    /\ pc = "while"
    /\ IF response.kind = "no_candidates"
         THEN TopLevelExcept(calls)
         ELSE /\ pc' = IF response.kind = "function_call" /\ iteration < max_iterations
                       THEN "execute_function" ELSE "final_text"
              /\ UNCHANGED <<result, calls>>
    /\ UNCHANGED <<entry, username_email, transcribed_text, response, iteration,
                   function_result>>
    /\ UNCHANGED <<attachment, current_message>>
    /\ UNCHANGED <<varsLimiter, varsStore, varsHandler, varsShared, varsTools, varsGlobals>>

\* function_result = await self.execute_function(part.function_call)
\* (agent.py:256-259).
call_function ==
    /\ pc = "execute_function"
    /\ \E outcome \in ToolOutcomes(response.name) :
         function_result' = execute_function(response, outcome)
    /\ calls' = [calls EXCEPT !.tool_calls = @ + 1]
    /\ pc' = IF startswith_marker(function_result') THEN "image_generation"
             ELSE "send_function_result"
    /\ UNCHANGED <<entry, username_email, transcribed_text, response, iteration, result>>
    /\ UNCHANGED <<attachment, current_message>>
    /\ UNCHANGED <<varsLimiter, varsStore, varsHandler, varsShared, varsTools, varsGlobals>>

\* An image step that calls the provider a second time after a failure.
image_generation_retry ==
    /\ pc = "image_generation"
    /\ \E ok \in BOOLEAN :
         /\ result' = IF ok
                      THEN [result EXCEPT !.image_bytes = TRUE, !.text = TextImage]
                      ELSE [result EXCEPT !.text = TextImageError]
         /\ calls' = [calls EXCEPT !.image_calls = @ + 1, !.image_ok = ok]
         /\ pc' = IF ~ok /\ calls.image_calls = 0 THEN "image_generation" ELSE "final_text"
    /\ UNCHANGED <<entry, username_email, transcribed_text, response, iteration,
                   function_result>>
    /\ UNCHANGED <<attachment, current_message>>
    /\ UNCHANGED <<varsLimiter, varsStore, varsHandler, varsShared, varsTools, varsGlobals>>

\* await self.image_generation.execute(prompt) and the break (agent.py:260-267).
image_generation ==
    /\ pc = "image_generation"
    /\ \E ok \in BOOLEAN :
         /\ result' = IF ok
                      THEN [result EXCEPT !.image_bytes = TRUE, !.text = TextImage]
                      ELSE [result EXCEPT !.text = TextImageError]
         /\ calls' = [calls EXCEPT !.image_calls = @ + 1, !.image_ok = ok]
    /\ pc' = "final_text"
    /\ UNCHANGED <<entry, username_email, transcribed_text, response, iteration,
                   function_result>>
    /\ UNCHANGED <<attachment, current_message>>
    /\ UNCHANGED <<varsLimiter, varsStore, varsHandler, varsShared, varsTools, varsGlobals>>

\* response = await chat.send_message_async(function response); iteration += 1
\* (agent.py:269-282).
send_function_result ==
    /\ pc = "send_function_result"
    /\ \/ \E r \in Responses :
            /\ response' = r
            /\ iteration' = iteration + 1
            /\ calls' = [Submitted(r) EXCEPT
                           !.image_req_iter = IF calls.image_req = 0
                                                 /\ r.kind = "function_call"
                                                 /\ r.name = "image_generation"
                                              THEN iteration + 1 ELSE @]
            /\ pc' = "while"
            /\ UNCHANGED result
       \/ /\ TopLevelExcept([calls EXCEPT !.only_tools = FALSE])
          /\ UNCHANGED <<response, iteration>>
    /\ UNCHANGED <<entry, username_email, transcribed_text, function_result>>
    /\ UNCHANGED <<attachment, current_message>>
    /\ UNCHANGED <<varsLimiter, varsStore, varsHandler, varsShared, varsTools, varsGlobals>>

\* response.text of the provider library: the text of a text response; a
\* ValueError for a response without parts; for a response whose part is a
\* function call the library decides (it raises, or yields a text).
ResponseText(r) ==
    CASE r.kind = "text" -> {TextModel}
      [] r.kind = "empty_text" -> {TextEmpty}
      [] r.kind = "function_call" -> {"raise", TextEmpty, TextModel}
      [] OTHER -> {"raise"}

\* if not result["text"]: result["text"] = response.text (agent.py:287-289).
final_text ==
    /\ pc = "final_text"
    /\ IF truthy(result.text)
         THEN /\ pc' = "add_interaction"
              /\ UNCHANGED <<result, calls>>
         ELSE \E t \in ResponseText(response) :
                IF t = "raise"
                  THEN TopLevelExcept(calls)
                  ELSE /\ result' = [result EXCEPT !.text = t]
                       /\ pc' = "add_interaction"
                       /\ UNCHANGED calls
    /\ UNCHANGED <<entry, username_email, transcribed_text, response, iteration,
                   function_result>>
    /\ UNCHANGED <<attachment, current_message>>
    /\ UNCHANGED <<varsLimiter, varsStore, varsHandler, varsShared, varsTools, varsGlobals>>

\* await memory.add_interaction(current_message, result["text"]); return result
\* (agent.py:291-299).  A storage error is raised inside the try block.
memory_add_interaction ==
    /\ pc = "add_interaction"
    /\ \/ /\ calls' = [calls EXCEPT !.writes = @ + 1, !.answer = result.text,
                                   !.stored = <<current_message, result.text>>]
          /\ pc' = AfterProcessMessage
          /\ UNCHANGED result
       \/ TopLevelExcept([calls EXCEPT !.add_failed = TRUE, !.answer = result.text])
    /\ UNCHANGED <<entry, username_email, transcribed_text, response, iteration,
                   function_result>>
    /\ UNCHANGED <<attachment, current_message>>
    /\ UNCHANGED <<varsLimiter, varsStore, varsHandler, varsShared, varsTools, varsGlobals>>

\* AudioTranscriber.execute (audio.py:35-55): the transcript, or the error
\* string; never an exception.
Transcriptions == {TextTranscript, TextTranscriptError, TextTranscribeError}

\* transcribed_text.startswith("Error") (agent.py:312).
startswith_Error(text) == text \in {TextTranscriptError, TextTranscribeError}

\* The entry of process_audio_message (agent.py:301-310).
StartAudio ==
    /\ pc = "idle"
    /\ entry' = "audio"
    /\ \E ue \in BOOLEAN : username_email' = ue
    /\ pc' = "transcribe"
    /\ result' = NewResult
    /\ calls' = NewCalls
    /\ attachment' = "none"
    /\ current_message' = NoMessage
    /\ UNCHANGED <<transcribed_text, response, iteration, function_result>>

\* process_audio_message called by any caller.
process_audio_message ==
    /\ StartAudio
    /\ UNCHANGED <<varsLimiter, varsStore, varsHandler, varsShared, varsTools, varsGlobals>>

transcribe ==
    /\ pc = "transcribe"
    /\ \E t \in Transcriptions :
         /\ transcribed_text' = t
         /\ IF startswith_Error(t)
              THEN /\ result' = [NewResult EXCEPT !.text = t]
                   /\ pc' = "returned"
                   /\ UNCHANGED calls
              ELSE /\ result' = NewResult
                   /\ pc' = IF username_email THEN "log_request" ELSE "get_history"
                   /\ calls' = [calls EXCEPT !.processed = TRUE]
    /\ UNCHANGED <<entry, username_email, response, iteration, function_result>>
    /\ UNCHANGED <<attachment, current_message>>
    /\ UNCHANGED <<varsLimiter, varsStore, varsHandler, varsShared, varsTools, varsGlobals>>

\* A synthesis failure that leaves process_audio_message as an exception.
SynthesisRaises ==
    /\ pc' = "raised"
    /\ UNCHANGED result

\* The except clause around the synthesis (agent.py:329-330): the failure is
\* logged and the result goes back without audio.
SynthesisFailed ==
    /\ pc' = "returned"
    /\ UNCHANGED result

\* Generate audio response (agent.py:323-332); AudioGenerator.execute re-raises
\* a provider failure (audio.py:86-88).
audio_response ==
    /\ pc = "audio_response"
    /\ IF truthy(result.text)
         THEN \/ /\ result' = [result EXCEPT !.audio_bytes = TRUE,
                                             !.needs_audio_response = TRUE]
                 /\ pc' = "returned"
                 /\ calls' = [calls EXCEPT !.synth = "ok", !.synth_text = result.text]
              \/ /\ SynthesisFailed
                 /\ calls' = [calls EXCEPT !.synth = "failed",
                                           !.synth_text = result.text]
         ELSE /\ pc' = "returned"
              /\ UNCHANGED <<result, calls>>
    /\ UNCHANGED <<entry, username_email, transcribed_text, response, iteration,
                   function_result>>
    /\ UNCHANGED <<attachment, current_message>>
    /\ UNCHANGED <<varsLimiter, varsStore, varsHandler, varsShared, varsTools, varsGlobals>>

\* The locals of the turn go away with the call.
ResetTurn ==
    /\ pc = "returned"
    /\ pc' = "idle"
    /\ entry' = "none"
    /\ username_email' = FALSE
    /\ transcribed_text' = TextNone
    /\ response' = NoResponse
    /\ iteration' = 0
    /\ function_result' = "none"
    /\ result' = NewResult
    /\ attachment' = "none"
    /\ current_message' = NoMessage
    /\ calls' = NewCalls

\* The caller has its result; the agent is ready for the next turn.
turn_done ==
    /\ ResetTurn
    /\ UNCHANGED <<varsLimiter, varsStore, varsHandler, varsShared, varsTools, varsGlobals>>

NextTurn ==
    \/ process_message
    \/ log_request
    \/ memory_get_history
    \/ send_message
    \/ while_loop
    \/ call_function
    \/ image_generation
    \/ send_function_result
    \/ final_text
    \/ memory_add_interaction
    \/ process_audio_message
    \/ transcribe
    \/ audio_response
    \/ turn_done

(***************************************************************************)
(* The claims about the turn orchestrator, checked under Spec.              *)
(***************************************************************************)

\* A turn that has handed its result back.
Returned == pc = "returned"

\* C1: when the model answers every submission of a turn with a call of a
\* non-image tool, process_message makes exactly 5 tool calls and 6 model
\* submissions and then returns.
C1_ExactlyFiveToolCalls ==
    (Returned /\ calls.submissions > 0 /\ calls.only_tools)
        => (calls.tool_calls = max_iterations
            /\ calls.submissions = max_iterations + 1)

\* The turn the claim C1 fails on: a non-image tool's text began with the image
\* marker, and the turn ended after one tool call.
C1_MarkerTextEndsLoop ==
    /\ Returned
    /\ calls.only_tools
    /\ function_result = "marker_text"
    /\ calls.tool_calls = 1
    /\ calls.image_calls = 1

\* C2 (as stated): once a response has requested image_generation, nothing
\* more is submitted to the model in the turn, the image generator has been
\* invoked when the turn returns, and a generated image is in the result.
C2_ImageRequestEndsLoop ==
    calls.image_req # 0 =>
        /\ calls.submissions = calls.image_req
        /\ Returned => calls.image_calls = 1
        /\ calls.image_ok => result.image_bytes

\* C2 (amended): the same, for a request that carries its prompt argument and
\* arrives before 5 function results have been submitted.
C2_ImageRequestWithPromptEndsLoop ==
    (calls.image_req # 0 /\ calls.image_req_prompt
                         /\ calls.image_req_iter < max_iterations) =>
        /\ calls.submissions = calls.image_req
        /\ pc \in {"final_text", "add_interaction", "audio_response", "returned"}
              => calls.image_calls = 1
        /\ calls.image_ok => result.image_bytes

C2_ImageReturned ==
    /\ Returned
    /\ calls.image_req = 2
    /\ calls.image_req_prompt
    /\ calls.image_ok
    /\ result.image_bytes
    /\ result.text = TextImage

\* C3: when add_interaction raises after the answer was computed, the result
\* still carries that answer.
C3_AnswerSurvivesWriteFailure ==
    (Returned /\ calls.add_failed) => result.text = calls.answer

C3_WriteFailed ==
    /\ Returned
    /\ calls.add_failed
    /\ calls.answer = TextModel
    /\ result.text = TextSorry

\* The texts that report a failure to the user.
ErrorTexts == {TextSorry, TextTranscribeError, TextImageError}

\* The turn failed: the except block ran, the transcription failed, or the
\* image provider failed.
TurnFailed ==
    \/ calls.handler
    \/ transcribed_text = TextTranscribeError
    \/ calls.image_calls = 1 /\ ~calls.image_ok

\* C10: neither entry point raises to its caller, whatever fails: each turn
\* ends with a result, and the result of a failed turn carries an error text.
C10_NeverRaises ==
    /\ pc # "raised"
    /\ (Returned /\ TurnFailed) => result.text \in ErrorTexts

C10_FailedTurnReturned ==
    /\ Returned
    /\ entry = "audio"
    /\ calls.handler
    /\ result.text = TextSorry

\* C11: when memory.get_history raises, nothing is submitted to the model, no
\* tool and no image generator runs, add_interaction is not called, and the
\* turn hands back the apology.
C11_ReadFailureAborts ==
    calls.read_failed =>
        /\ calls.submissions = 0
        /\ calls.tool_calls = 0
        /\ calls.image_calls = 0
        /\ calls.writes = 0
        /\ ~calls.add_failed
        /\ pc \in {"audio_response", "returned"}
        /\ result.text = TextSorry

C11_ReadFailedTurnReturned ==
    /\ Returned
    /\ entry = "message"
    /\ calls.read_failed
    /\ calls.submissions = 0
    /\ result.text = TextSorry

\* A turn of process_message that ended without its except block.
CompletedWithoutError == Returned /\ calls.processed /\ ~calls.handler

\* C12: a turn that completes without error has stored one interaction: the
\* message text as it was passed in, and the text of the returned result.
C12_OriginalMessageStored ==
    CompletedWithoutError =>
        /\ calls.writes = 1
        /\ calls.stored = <<[text |-> MessageArgument, appended |-> ""], result.text>>

\* The turn the claim C12 fails on: a message with an image attachment was
\* stored with the bracketed descriptor appended.
C12_DescriptorStored ==
    /\ CompletedWithoutError
    /\ attachment = "image"
    /\ calls.writes = 1
    /\ calls.stored[1] = [text |-> TextMessage, appended |-> Descriptor("image")]
    /\ calls.stored[2] = result.text

\* The loop ended at the cap with a response that still calls a tool.
CapReached == iteration = max_iterations /\ response.kind = "function_call"

\* C13: a turn that reaches the iteration cap without a final answer ends like
\* any other: its answer is the model's text, an empty text or the error text,
\* and the exchange is stored (unless the storage itself fails).
C13_CapTurnPersisted ==
    (Returned /\ CapReached /\ ~calls.add_failed) =>
        /\ result.text \in {TextModel, TextEmpty, TextSorry}
        /\ calls.writes = 1
        /\ calls.stored[2] = result.text

\* The turn the claim C13 fails on: response.text of the tool-calling response
\* raised, the except block answered, and nothing was stored.
C13_CapTurnNotStored ==
    /\ Returned
    /\ CapReached
    /\ calls.tool_calls = max_iterations
    /\ calls.handler
    /\ ~calls.add_failed
    /\ calls.writes = 0
    /\ result.text = TextSorry

\* C14: execute_function always hands back a string, and the string of a tool
\* other than image_generation is submitted to the model: only a call of
\* image_generation leaves the loop for the image generator.
C14_ToolResultGoesBack ==
    /\ pc # "raised"
    /\ pc \in {"image_generation", "send_function_result"}
          => function_result \in FunctionResults
    /\ pc = "image_generation" => response.name = "image_generation"

\* The state the claim C14 fails on: the text of a tool other than
\* image_generation is about to be handed to the image generator.
C14_ToolTextTakenAsImageRequest ==
    /\ pc = "image_generation"
    /\ response.name \in VerbatimTools
    /\ function_result = "marker_text"
    /\ calls.submissions = 1

\* C17: on the audio path process_message runs exactly when the transcription
\* succeeded: a failed transcription returns its error text without a model
\* call or a write, and every transcript is processed.
C17_ModelIffTranscribed ==
    (entry = "audio" /\ Returned) =>
        /\ transcribed_text = TextTranscribeError =>
              /\ ~calls.processed
              /\ calls.submissions = 0
              /\ calls.writes = 0
              /\ result.text = TextTranscribeError
        /\ transcribed_text \in {TextTranscript, TextTranscriptError} => calls.processed

\* The turn the claim C17 fails on: a transcript that begins with "Error" was
\* handed back as if the transcription had failed.
C17_TranscriptTakenAsError ==
    /\ entry = "audio"
    /\ Returned
    /\ transcribed_text = TextTranscriptError
    /\ ~calls.processed
    /\ calls.submissions = 0
    /\ result.text = TextTranscriptError

\* C18: on the audio path a text answer is synthesized; a successful synthesis
\* sets audio_bytes and needs_audio_response, a failed one leaves the text
\* alone with neither set, no exception leaves process_audio_message, and
\* needs_audio_response is never set without audio_bytes.
C18_SynthesisDegrades ==
    /\ pc # "raised"
    /\ result.needs_audio_response => result.audio_bytes
    /\ calls.synth = "ok" => (result.audio_bytes /\ result.needs_audio_response
                              /\ result.text = calls.synth_text)
    /\ calls.synth = "failed" => (/\ result.text = calls.synth_text
                                  /\ truthy(result.text)
                                  /\ ~result.audio_bytes
                                  /\ ~result.needs_audio_response)
    /\ (entry = "audio" /\ Returned /\ calls.processed)
          => (truthy(result.text) <=> calls.synth # "none")

C18_TextOnlyAfterFailedSynthesis ==
    /\ Returned
    /\ entry = "audio"
    /\ calls.synth = "failed"
    /\ calls.writes = 1
    /\ result.text = TextModel
    /\ ~result.audio_bytes
    /\ ~result.needs_audio_response

\* C22: when process_message is called with an attachment reference, the
\* message submitted to the model is the original text followed by a
\* bracketed descriptor of the attachment; without one it is the text alone.
C22_DescriptorSubmitted ==
    (entry = "message" /\ calls.submissions >= 1) =>
        /\ calls.sent.text = TextMessage
        /\ (attachment = "none") = (calls.sent.appended = "")

C22_UntypedAttachmentNotDescribed ==
    /\ entry = "message"
    /\ attachment = "untyped"
    /\ calls.submissions >= 1
    /\ calls.sent = [text |-> TextMessage, appended |-> ""]

\* The add_interaction calls of the turn so far, committed or failed.
AddInteractionCalls == calls.writes + (IF calls.add_failed THEN 1 ELSE 0)

\* What the turn has written: nothing, or the one pair of the submitted
\* message and the text of the result, which is the model's text or the image
\* caption and never the string a tool returned; nothing when the except block
\* ran.
WrittenOnce ==
    /\ AddInteractionCalls <= 1
    /\ calls.writes = 1 =>
          /\ calls.stored = <<calls.sent, calls.answer>>
          /\ calls.stored[2] \in {TextModel, TextEmpty, TextImage, TextImageError}
          /\ pc = "returned" => result.text = calls.stored[2]
    /\ calls.handler => calls.writes = 0

\* Once add_interaction has been called, the turn submits nothing more to the
\* model, calls no tool and does not write again.
WriteIsLast ==
    (AddInteractionCalls >= 1 /\ pc' # "idle") =>
        /\ calls'.submissions = calls.submissions
        /\ calls'.tool_calls = calls.tool_calls
        /\ calls'.writes = calls.writes
        /\ calls'.stored = calls.stored

ImageFailed == calls.image_calls >= 1 /\ ~calls.image_ok

\* The provider is called at most once in a turn; after a failure the result
\* has no image and its text is the image error text, or the apology when the
\* write that follows failed as well.
ImageOnce ==
    /\ calls.image_calls <= 1
    /\ ImageFailed =>
          /\ ~result.image_bytes
          /\ result.text \in {TextImageError, TextSorry}
          /\ result.text = TextSorry => calls.add_failed
          /\ pc \in {"final_text", "add_interaction", "audio_response", "returned"}

\* After the call of the provider the turn calls neither the provider, nor a
\* tool, nor the model again.
ImageIsLast ==
    (calls.image_calls >= 1 /\ pc' # "idle") =>
        /\ calls'.image_calls = calls.image_calls
        /\ calls'.submissions = calls.submissions
        /\ calls'.tool_calls = calls.tool_calls

\* C36: image generation is attempted at most once in a turn, and a failure of
\* the provider ends the turn with an error text and without image, retry or
\* further submission to the model.
C36_ImageAttemptedOnce == []ImageOnce /\ [][ImageIsLast]_vars

\* The provider failed on the request of the second response; the turn
\* returned the image error text, stored once, after two submissions.
C36_FailedImageReturned ==
    /\ Returned
    /\ calls.image_req = 2
    /\ calls.image_calls = 1
    /\ ~calls.image_ok
    /\ calls.submissions = 2
    /\ calls.writes = 1
    /\ result = [NewResult EXCEPT !.text = TextImageError]

(***************************************************************************)
(* Part 2.  The rate limiter (database.py, class RateLimiter).              *)
(***************************************************************************)

\* Concurrent callers of is_allowed for one identity.
NumCallers == 2
Callers == 1..NumCallers

\* Calls of is_allowed that may start in one run.
MaxCalls == 5

\* RateLimiter.max_requests and window_seconds (database.py:231-232), as in
\* the limiter example of the specification, with the window in clock ticks.
max_requests == 3
window_seconds == 2

NoKey == [val |-> 0, ttl |-> 0]
\* ttl = -1: a key without expiry, as the backend reports it.
NoExpiry == 0 - 1

IdleCaller == [pc |-> "idle", current |-> 0, allowed |-> FALSE, remaining |-> 0,
               error |-> FALSE]

\* returns: the (allowed, remaining) pairs handed back since the window began;
\* overlap: two calls were in flight at once; error: a call took the fail-open
\* path; straddle: the key expired while a call was in flight; started: calls
\* begun in the whole run.
NewWindow == [returns |-> <<>>, overlap |-> FALSE, error |-> FALSE,
              straddle |-> FALSE, started |-> 0]

InitLimiter ==
    /\ redis_client \in {"None", "client"}
    /\ rate_limit = NoKey
    /\ lim = [c \in Callers |-> IdleCaller]
    /\ window = [NewWindow EXCEPT !.error = (redis_client = "None")]

InFlight(c) == lim[c].pc # "idle"

\* A limiter that denies when it cannot count.
FailClosed(c) ==
    [lim[c] EXCEPT !.pc = "returned", !.allowed = FALSE, !.remaining = 0,
                   !.error = TRUE]

\* return True, self.max_requests (database.py:239-240 and 256-258).
FailOpen(c) ==
    [lim[c] EXCEPT !.pc = "returned", !.allowed = TRUE, !.remaining = max_requests,
                   !.error = TRUE]

\* redis_client = await get_redis() (database.py:236-243).
is_allowed(c) ==
    /\ lim[c].pc = "idle"
    /\ window.started < MaxCalls
    /\ lim' = [lim EXCEPT ![c] =
                 IF redis_client = "None" THEN FailOpen(c)
                 ELSE [IdleCaller EXCEPT !.pc = "get"]]
    /\ window' = [window EXCEPT
                    !.overlap = @ \/ \E d \in Callers \ {c} : InFlight(d),
                    !.error = @ \/ redis_client = "None",
                    !.started = @ + 1]
    /\ UNCHANGED <<redis_client, rate_limit>>
    /\ UNCHANGED <<varsTurn, varsStore, varsHandler, varsShared, varsTools, varsGlobals>>

\* A comparison that lets one request too many through.
DeniedAbove(current) == current > max_requests

\* if current >= self.max_requests (database.py:251).
Denied(current) == current >= max_requests

\* current = await redis_client.get(key) and the branch on it
\* (database.py:245-252).
redis_get(c) ==
    /\ lim[c].pc = "get"
    /\ lim' = [lim EXCEPT ![c] =
                 IF rate_limit = NoKey THEN [@ EXCEPT !.pc = "setex"]
                 ELSE IF Denied(rate_limit.val)
                   THEN [@ EXCEPT !.pc = "returned", !.current = rate_limit.val,
                                  !.allowed = FALSE, !.remaining = 0]
                 ELSE [@ EXCEPT !.pc = "incr", !.current = rate_limit.val]]
    /\ UNCHANGED <<redis_client, rate_limit, window>>
    /\ UNCHANGED <<varsTurn, varsStore, varsHandler, varsShared, varsTools, varsGlobals>>

\* await redis_client.setex(key, self.window_seconds, 1)
\* return True, self.max_requests - 1 (database.py:247-248).
redis_setex(c) ==
    /\ lim[c].pc = "setex"
    /\ rate_limit' = [val |-> 1, ttl |-> window_seconds]
    /\ lim' = [lim EXCEPT ![c] = [@ EXCEPT !.pc = "returned", !.allowed = TRUE,
                                           !.remaining = max_requests - 1]]
    /\ UNCHANGED <<redis_client, window>>
    /\ UNCHANGED <<varsTurn, varsStore, varsHandler, varsShared, varsTools, varsGlobals>>

\* The backend's INCR: an absent key counts from 0 and gets no expiry.
INCR(key) == IF key = NoKey THEN [val |-> 1, ttl |-> NoExpiry]
             ELSE [key EXCEPT !.val = @ + 1]

\* await redis_client.incr(key)
\* return True, self.max_requests - current - 1 (database.py:254-255).
redis_incr(c) ==
    /\ lim[c].pc = "incr"
    /\ rate_limit' = INCR(rate_limit)
    /\ lim' = [lim EXCEPT ![c] = [@ EXCEPT !.pc = "returned", !.allowed = TRUE,
                                           !.remaining = max_requests - lim[c].current - 1]]
    /\ UNCHANGED <<redis_client, window>>
    /\ UNCHANGED <<varsTurn, varsStore, varsHandler, varsShared, varsTools, varsGlobals>>

\* A backend operation raises; the except clause answers (database.py:256-258).
redis_error(c) ==
    /\ lim[c].pc \in {"get", "setex", "incr"}
    /\ lim' = [lim EXCEPT ![c] = FailOpen(c)]
    /\ window' = [window EXCEPT !.error = TRUE]
    /\ UNCHANGED <<redis_client, rate_limit>>
    /\ UNCHANGED <<varsTurn, varsStore, varsHandler, varsShared, varsTools, varsGlobals>>

\* The caller has its (allowed, remaining).
is_allowed_return(c) ==
    /\ lim[c].pc = "returned"
    /\ window' = [window EXCEPT
                    !.returns = Append(@, <<lim[c].allowed, lim[c].remaining>>)]
    /\ lim' = [lim EXCEPT ![c] = [@ EXCEPT !.pc = "idle"]]
    /\ UNCHANGED <<redis_client, rate_limit>>
    /\ UNCHANGED <<varsTurn, varsStore, varsHandler, varsShared, varsTools, varsGlobals>>

\* One clock tick of the backend: the key's time-to-live runs down and the key
\* is removed when it reaches zero.  A new window begins when no call is in
\* flight at that moment.
tick ==
    /\ rate_limit # NoKey
    /\ rate_limit.ttl > 0
    /\ IF rate_limit.ttl > 1
         THEN /\ rate_limit' = [rate_limit EXCEPT !.ttl = @ - 1]
              /\ UNCHANGED window
         ELSE /\ rate_limit' = NoKey
              /\ window' = IF \E c \in Callers : InFlight(c)
                           THEN [window EXCEPT !.straddle = TRUE]
                           ELSE [NewWindow EXCEPT !.started = window.started]
    /\ UNCHANGED <<redis_client, lim>>
    /\ UNCHANGED <<varsTurn, varsStore, varsHandler, varsShared, varsTools, varsGlobals>>

NextLimiter ==
    \/ \E c \in Callers : is_allowed(c)
    \/ \E c \in Callers : redis_get(c)
    \/ \E c \in Callers : redis_setex(c)
    \/ \E c \in Callers : redis_incr(c)
    \/ \E c \in Callers : redis_error(c)
    \/ \E c \in Callers : is_allowed_return(c)
    \/ tick

\* The steps of one caller.
CallerNext(c) ==
    \/ is_allowed(c)
    \/ redis_get(c)
    \/ redis_setex(c)
    \/ redis_incr(c)
    \/ redis_error(c)
    \/ is_allowed_return(c)

(***************************************************************************)
(* The claims about the rate limiter, checked under SpecLimiter and         *)
(* SpecLimiterLive.                                                         *)
(***************************************************************************)

\* The calls of the current window that were allowed.
AllowedInWindow == {k \in 1..Len(window.returns) : window.returns[k][1]}

\* Every call since the window began ran against a working backend and inside
\* the window.
WindowUndisturbed == ~window.error /\ ~window.straddle

\* C4: within one window and with the backend available, at most max_requests
\* calls of is_allowed return allowed = true, however the calls interleave.
C4_AtMostMaxAllowed ==
    WindowUndisturbed => Cardinality(AllowedInWindow) <= max_requests

\* The race the claim C4 fails on: the calls overlapped, the backend worked,
\* and more than max_requests calls were allowed in the window.
C4_LostUpdate ==
    /\ WindowUndisturbed
    /\ window.overlap
    /\ Cardinality(AllowedInWindow) = max_requests + 1

Max0(n) == IF n > 0 THEN n ELSE 0

\* C5: for calls of one window made one after the other against a working
\* backend, the k-th call returns allowed = (k <= max_requests) and
\* remaining = max(max_requests - k, 0).
C5_SequentialCalls ==
    (WindowUndisturbed /\ ~window.overlap) =>
        \A k \in 1..Len(window.returns) :
            window.returns[k] = <<k <= max_requests, Max0(max_requests - k)>>

\* Four calls in one window with max_requests = 3.
C5_FourCalls ==
    /\ WindowUndisturbed
    /\ ~window.overlap
    /\ max_requests = 3
    /\ window.returns = <<<<TRUE, 2>>, <<TRUE, 1>>, <<TRUE, 0>>, <<FALSE, 0>>>>

\* C6: a call that found no backend client, or whose backend operation raised,
\* returns (true, max_requests); is_allowed never raises.
C6_FailsOpen ==
    \A c \in Callers :
        /\ lim[c].pc # "raised"
        /\ (lim[c].pc = "returned" /\ lim[c].error) =>
              (lim[c].allowed /\ lim[c].remaining = max_requests)
        /\ (lim[c].pc = "returned" /\ redis_client = "None") => lim[c].error

\* The fail-open path that costs something: the client is present, the window
\* is already full, a backend operation raised, and the call was allowed.
C6_FailedOpen ==
    /\ redis_client = "client"
    /\ rate_limit.val >= max_requests
    /\ \E c \in Callers : /\ lim[c].pc = "returned"
                          /\ lim[c].error
                          /\ lim[c].allowed
                          /\ lim[c].remaining = max_requests

\* A call has come back with allowed = false.
DeniedCall(c) == lim[c].pc = "returned" /\ ~lim[c].allowed

\* The counter lets the next call through: it is gone, or below the limit.
Admits == rate_limit = NoKey \/ ~Denied(rate_limit.val)

\* C20: after a denial the counter eventually lets a call through again (its
\* window runs out and the counter goes away).
C20_EventuallyAllowedAgain ==
    \A c \in Callers : DeniedCall(c) ~> Admits

\* The state the claim C20 fails on: the counter was created by INCR after the
\* key had expired, carries no expiry, has reached the limit, and a call was
\* denied.
C20_CounterWithoutExpiry ==
    /\ redis_client = "client"
    /\ rate_limit # NoKey
    /\ rate_limit.ttl = NoExpiry
    /\ rate_limit.val >= max_requests
    /\ \E c \in Callers : DeniedCall(c)

\* C33: a counter that exists in the backend has a time-to-live, of at most
\* window_seconds.
C33_CounterHasExpiry ==
    rate_limit # NoKey => rate_limit.ttl \in 1..window_seconds

\* One caller alone: its GET found the counter, the counter expired, and its
\* INCR created a new one, which has no time-to-live; the call was allowed.
C33_CreatedByIncr ==
    /\ ~window.overlap
    /\ window.straddle
    /\ rate_limit = [val |-> 1, ttl |-> NoExpiry]
    /\ \E c \in Callers : /\ lim[c].pc = "returned"
                          /\ lim[c].allowed
                          /\ ~lim[c].error
                          /\ lim[c].current >= 1

\* The steps in which a call writes, or is denied.
SetsExpiry(c) == lim[c].pc = "setex" /\ lim'[c].pc = "returned" /\ ~lim'[c].error

Increments(c) == lim[c].pc = "incr" /\ lim'[c].pc = "returned" /\ ~lim'[c].error

Denies(c) == lim[c].pc = "get" /\ lim'[c].pc = "returned" /\ ~lim'[c].allowed

\* The time-to-live is set by the call that creates the counter and by no
\* other, an allowed call on an existing counter adds one to it and keeps its
\* time-to-live, and a denied call leaves the counter as it is.
FixedWindowStep ==
    \A c \in Callers :
        /\ SetsExpiry(c) =>
              /\ rate_limit = NoKey
              /\ rate_limit' = [val |-> 1, ttl |-> window_seconds]
        /\ Increments(c) =>
              /\ rate_limit # NoKey
              /\ rate_limit' = [val |-> rate_limit.val + 1, ttl |-> rate_limit.ttl]
        /\ Denies(c) => rate_limit' = rate_limit

\* C34: the window is fixed, in every step of every call.
C34_FixedWindow == [][FixedWindowStep]_vars

\* Two overlapping calls both found no counter and both ran SETEX inside one
\* window: the second one set the count back to 1 and the time-to-live back to
\* window_seconds.
C34_WindowRestarted ==
    /\ WindowUndisturbed
    /\ rate_limit = [val |-> 1, ttl |-> window_seconds]
    /\ \E c, d \in Callers :
         /\ c # d
         /\ \A x \in {c, d} : /\ lim[x].pc = "returned"
                              /\ lim[x].allowed
                              /\ lim[x].remaining = max_requests - 1
                              /\ lim[x].current = 0

(***************************************************************************)
(* Part 3.  The conversation store (database.py, class ChatMemory), for one *)
(* session_id, with concurrent tasks.                                       *)
(***************************************************************************)

\* Concurrent tasks calling ChatMemory for the session.
NumTasks == 2
Tasks == 1..NumTasks

\* add_interaction calls that may start in one run.
MaxWrites == 2

\* ChatMemory.context_length (database.py:94).
context_length == 1

NoEntry == <<"nil">>

\* read: a get_history call answered from the cache ("hit") or from the
\* database ("miss"); n: the rows stored when the database was read; cached:
\* the call stored its window in the cache; cache_failed, storage_failed: a
\* cache or database operation of the call raised.
IdleTask == [pc |-> "idle", history |-> <<>>, id |-> 0, created_at |-> 0,
             read |-> "none", n |-> 0, cached |-> FALSE,
             cache_failed |-> FALSE, storage_failed |-> FALSE]

\* overlap: two tasks were in flight at once; cache_error: a cache operation
\* raised; invalidated: a delete removed an entry; stale_left: a delete failed
\* and left an entry in place; adds: add_interaction calls begun; done: the
\* interactions whose add_interaction returned.
NewStore == [overlap |-> FALSE, cache_error |-> FALSE, invalidated |-> FALSE,
             stale_left |-> FALSE, adds |-> 0, done |-> {}]

InitStore ==
    /\ messages = <<>>
    /\ cache = NoEntry
    /\ now = 0
    /\ task = [t \in Tasks |-> IdleTask]
    /\ store = NewStore

Busy(t) == task[t].pc # "idle"

Overlap(t) == store.overlap \/ \E u \in Tasks \ {t} : Busy(u)

\* The two rows of one interaction (database.py:165-166).
Rows(i) == {<<i, "human">>, <<i, "ai">>}

\* A SELECT that orders by created_at ascending.
SelectOldest(log, n) ==
    LET k == IF Len(log) < n THEN Len(log) ELSE n
    IN {[a \in 1..k |-> <<log[k + 1 - a].id, log[k + 1 - a].role>>]}

\* SELECT role, content ... ORDER BY created_at DESC LIMIT n (database.py:113-123):
\* the n newest rows, newest first; rows of equal created_at come in any order,
\* and any of them may fill the last places.
SelectNewest(log, n) ==
    LET k == IF Len(log) < n THEN Len(log) ELSE n
        picks == {f \in [1..k -> 1..Len(log)] :
                    /\ \A a, b \in 1..k : a < b =>
                         /\ f[a] # f[b]
                         /\ log[f[a]].created_at >= log[f[b]].created_at
                    /\ \A a \in 1..k : \A j \in 1..Len(log) :
                         (\A b \in 1..k : f[b] # j) =>
                            log[j].created_at <= log[f[a]].created_at}
    IN {[a \in 1..k |-> <<log[f[a]].id, log[f[a]].role>>] : f \in picks}

\* reversed(rows) (database.py:125).
Reversed(rows) == [a \in 1..Len(rows) |-> rows[Len(rows) + 1 - a]]

\* An insert that commits the human row alone.
InsertHumanOnly(log, i, ts) ==
    Append(log, [id |-> i, role |-> "human", created_at |-> ts])

\* INSERT ... VALUES ($1, 'human', $2, NOW()), ($1, 'ai', $3, NOW())
\* (database.py:163-171): both rows carry the transaction's start time.
InsertInteraction(log, i, ts) ==
    log \o <<[id |-> i, role |-> "human", created_at |-> ts],
             [id |-> i, role |-> "ai", created_at |-> ts]>>

\* ChatMemory.get_history, to the cache read (database.py:96-102).
get_history(t) ==
    /\ task[t].pc = "idle"
    /\ task' = [task EXCEPT ![t] =
                  [IdleTask EXCEPT !.pc = IF redis_client = "None" THEN "fetch"
                                         ELSE "cache_get"]]
    /\ store' = [store EXCEPT !.overlap = Overlap(t)]
    /\ UNCHANGED <<messages, cache, now, redis_client>>
    /\ UNCHANGED <<varsTurn, rate_limit, lim, window, varsHandler, varsShared, varsTools, varsGlobals>>

\* cached = await redis_client.get(cache_key) (database.py:103-108): a hit
\* returns the entry as it is, a miss goes on to the database.
cache_get(t) ==
    /\ task[t].pc = "cache_get"
    /\ task' = [task EXCEPT ![t] =
                  IF cache = NoEntry THEN [@ EXCEPT !.pc = "fetch"]
                  ELSE [@ EXCEPT !.pc = "returned", !.history = cache,
                                 !.read = "hit"]]
    /\ UNCHANGED <<messages, cache, now, store, redis_client>>
    /\ UNCHANGED <<varsTurn, rate_limit, lim, window, varsHandler, varsShared, varsTools, varsGlobals>>

\* rows = await conn.fetch(...); history = reversed rows (database.py:111-128).
fetch(t) ==
    /\ task[t].pc = "fetch"
    /\ \E rows \in SelectNewest(messages, context_length * 2) :
         task' = [task EXCEPT ![t] =
                    [@ EXCEPT !.history = Reversed(rows),
                              !.read = "miss",
                              !.n = Len(messages),
                              !.pc = IF redis_client = "None" THEN "returned"
                                     ELSE "cache_setex"]]
    /\ UNCHANGED <<messages, cache, now, store, redis_client>>
    /\ UNCHANGED <<varsTurn, rate_limit, lim, window, varsHandler, varsShared, varsTools, varsGlobals>>

\* await redis_client.setex(cache_key, 300, json.dumps(history))
\* (database.py:128-134).
cache_setex(t) ==
    /\ task[t].pc = "cache_setex"
    /\ cache' = task[t].history
    /\ task' = [task EXCEPT ![t] = [@ EXCEPT !.pc = "returned", !.cached = TRUE]]
    /\ UNCHANGED <<messages, now, store, redis_client>>
    /\ UNCHANGED <<varsTurn, rate_limit, lim, window, varsHandler, varsShared, varsTools, varsGlobals>>

\* ChatMemory.add_interaction, to the start of the transaction
\* (database.py:158-162): NOW() is the clock at that moment.
add_interaction(t) ==
    /\ task[t].pc = "idle"
    /\ store.adds < MaxWrites
    /\ task' = [task EXCEPT ![t] =
                  [IdleTask EXCEPT !.pc = "insert", !.id = store.adds + 1,
                                   !.created_at = now]]
    /\ store' = [store EXCEPT !.overlap = Overlap(t), !.adds = @ + 1]
    /\ UNCHANGED <<messages, cache, now, redis_client>>
    /\ UNCHANGED <<varsTurn, rate_limit, lim, window, varsHandler, varsShared, varsTools, varsGlobals>>

\* The INSERT and the commit (database.py:162-171), some time after the
\* transaction began.
insert(t) ==
    /\ task[t].pc = "insert"
    /\ now > task[t].created_at
    /\ messages' = InsertInteraction(messages, task[t].id, task[t].created_at)
    /\ task' = [task EXCEPT ![t] =
                  [@ EXCEPT !.pc = IF redis_client = "None" THEN "returned"
                                   ELSE "cache_delete"]]
    /\ UNCHANGED <<cache, now, store, redis_client>>
    /\ UNCHANGED <<varsTurn, rate_limit, lim, window, varsHandler, varsShared, varsTools, varsGlobals>>

\* A write that leaves the cached entry in place.
KeepEntry(e) == e

\* The effect of DEL on the entry.
DeleteEntry(e) == NoEntry

\* await redis_client.delete(cache_key) (database.py:173-177).
cache_delete(t) ==
    /\ task[t].pc = "cache_delete"
    /\ cache' = DeleteEntry(cache)
    /\ store' = [store EXCEPT !.invalidated = @ \/ cache # NoEntry]
    /\ task' = [task EXCEPT ![t] = [@ EXCEPT !.pc = "returned"]]
    /\ UNCHANGED <<messages, now, redis_client>>
    /\ UNCHANGED <<varsTurn, rate_limit, lim, window, varsHandler, varsShared, varsTools, varsGlobals>>

\* A cache failure that leaves the method as an exception.
Propagated(at) == "raised"

\* except Exception: pass (database.py:107-108, 131-132, 178-179): where the
\* method goes on after a cache operation raised.
Swallowed(at) == IF at = "cache_get" THEN "fetch" ELSE "returned"

\* A cache operation raises and the except clause passes over it
\* (database.py:107-108, 131-132, 178-179): the read goes on to the database,
\* the write and the delete are skipped.
cache_error(t) ==
    /\ task[t].pc \in {"cache_get", "cache_setex", "cache_delete"}
    /\ task' = [task EXCEPT ![t] =
                  [@ EXCEPT !.pc = Swallowed(@), !.cache_failed = TRUE]]
    /\ store' = [store EXCEPT
                   !.cache_error = TRUE,
                   !.stale_left = @ \/ (task[t].pc = "cache_delete" /\ cache # NoEntry)]
    /\ UNCHANGED <<messages, cache, now, redis_client>>
    /\ UNCHANGED <<varsTurn, rate_limit, lim, window, varsHandler, varsShared, varsTools, varsGlobals>>

\* The database raises in the SELECT or in the transaction (database.py:112-123,
\* 161-171): nothing is stored and the exception leaves the method.
storage_error(t) ==
    /\ task[t].pc \in {"fetch", "insert"}
    /\ task' = [task EXCEPT ![t] = [@ EXCEPT !.pc = "raised", !.storage_failed = TRUE]]
    /\ UNCHANGED <<messages, cache, now, store, redis_client>>
    /\ UNCHANGED <<varsTurn, rate_limit, lim, window, varsHandler, varsShared, varsTools, varsGlobals>>

\* The caller has the history, the None of add_interaction, or the exception.
store_return(t) ==
    /\ task[t].pc \in {"returned", "raised"}
    /\ store' = [store EXCEPT !.done = IF task[t].pc = "returned" /\ task[t].id # 0
                                       THEN @ \cup {task[t].id} ELSE @]
    /\ task' = [task EXCEPT ![t] = IdleTask]
    /\ UNCHANGED <<messages, cache, now, redis_client>>
    /\ UNCHANGED <<varsTurn, rate_limit, lim, window, varsHandler, varsShared, varsTools, varsGlobals>>

\* An entry stored without a time-to-live.
NeverExpires(e) == e

\* The entry after its time-to-live.
Expired(e) == NoEntry

\* The entry's time-to-live (300 s, database.py:130) runs out.
cache_expire ==
    /\ cache # NoEntry
    /\ cache' = Expired(cache)
    /\ UNCHANGED <<messages, now, task, store, redis_client>>
    /\ UNCHANGED <<varsTurn, rate_limit, lim, window, varsHandler, varsShared, varsTools, varsGlobals>>

\* The database clock advances.
clock ==
    /\ now < MaxWrites
    /\ now' = now + 1
    /\ UNCHANGED <<messages, cache, task, store, redis_client>>
    /\ UNCHANGED <<varsTurn, rate_limit, lim, window, varsHandler, varsShared, varsTools, varsGlobals>>

NextStore ==
    \/ \E t \in Tasks : get_history(t)
    \/ \E t \in Tasks : cache_get(t)
    \/ \E t \in Tasks : fetch(t)
    \/ \E t \in Tasks : cache_setex(t)
    \/ \E t \in Tasks : add_interaction(t)
    \/ \E t \in Tasks : insert(t)
    \/ \E t \in Tasks : cache_delete(t)
    \/ \E t \in Tasks : cache_error(t)
    \/ \E t \in Tasks : storage_error(t)
    \/ \E t \in Tasks : store_return(t)
    \/ cache_expire
    \/ clock

\* One task writes and the others read; no storage errors, the cache may fail.
Writer == CHOOSE t \in Tasks : \A u \in Tasks : t <= u
Readers == Tasks \ {Writer}

WriterNext ==
    \/ add_interaction(Writer)
    \/ insert(Writer)
    \/ cache_delete(Writer)
    \/ cache_error(Writer)
    \/ store_return(Writer)

ReaderNext(t) ==
    \/ get_history(t)
    \/ cache_get(t)
    \/ fetch(t)
    \/ cache_setex(t)
    \/ cache_error(t)
    \/ store_return(t)

NextStoreLive ==
    \/ WriterNext
    \/ \E t \in Readers : ReaderNext(t)
    \/ cache_expire
    \/ clock

(***************************************************************************)
(* The claims about the conversation store, checked under SpecStore and     *)
(* SpecStoreLive.                                                           *)
(***************************************************************************)

Range(h) == {h[a] : a \in 1..Len(h)}

\* The rows of interaction i that a window holds.
RowsIn(h, i) == {a \in 1..Len(h) : h[a][1] = i}

\* The rows of interaction i that are stored.
Stored(i) == {j \in 1..Len(messages) : messages[j].id = i}

\* No other stored interaction carries the created_at of interaction i.
UniqueStamp(i) ==
    \A j, k \in 1..Len(messages) :
        (messages[j].id = i /\ messages[k].id # i)
            => messages[j].created_at # messages[k].created_at

\* A task that holds the window it has just read from the database.
ReadDatabase(t) ==
    \/ task[t].pc = "cache_setex"
    \/ task[t].pc = "returned" /\ task[t].id = 0 /\ redis_client = "None"

\* C7: the two rows of an interaction become visible together.  The table
\* holds none or both of them, a window read from the database while or after
\* add_interaction runs holds none or both of them, and a failed insert stores
\* neither.
C7_AtomicInteraction ==
    \A i \in 1..MaxWrites :
        /\ Cardinality(Stored(i)) \in {0, 2}
        /\ \A t \in Tasks :
             /\ (ReadDatabase(t) /\ UniqueStamp(i))
                   => Cardinality(RowsIn(task[t].history, i)) \in {0, 2}
             /\ (task[t].pc = "raised" /\ task[t].id = i) => Stored(i) = {}

\* A reader whose database read overlapped add_interaction and came after the
\* commit holds both new rows, while the writer has not returned yet.
C7_ReaderSeesBoth ==
    \E t, u \in Tasks :
        /\ task[t].pc = "cache_delete"
        /\ task[u].pc = "cache_setex"
        /\ UniqueStamp(task[t].id)
        /\ Len(messages) = 4
        /\ Cardinality(RowsIn(task[u].history, task[t].id)) = 2

\* The interaction committed last.
LastInteraction == messages[Len(messages)].id

\* A get_history call that has returned its window.
HistoryReturned(t) == task[t].pc = "returned" /\ task[t].id = 0

\* C8: with a working cache and one call at a time, a get_history that
\* returns after an add_interaction has returned holds the two new messages.
C8_InvalidateOnWrite ==
    (~store.overlap /\ ~store.cache_error /\ messages # <<>>) =>
        \A t \in Tasks :
            HistoryReturned(t) => Rows(LastInteraction) \subseteq Range(task[t].history)

\* The write removed a cached entry and the next read returned the new rows.
C8_ReadAfterInvalidation ==
    /\ ~store.overlap
    /\ ~store.cache_error
    /\ store.invalidated
    /\ redis_client = "client"
    /\ \E t \in Tasks :
         /\ HistoryReturned(t)
         /\ Len(messages) = 4
         /\ Rows(LastInteraction) \subseteq Range(task[t].history)

\* A get_history call has returned a window with both rows of interaction i.
Seen(i) ==
    \E t \in Tasks : HistoryReturned(t) /\ Rows(i) \subseteq Range(task[t].history)

\* Later interactions have pushed interaction i out of the newest
\* 2 x context_length rows.
Displaced(i) ==
    \E h \in SelectNewest(messages, context_length * 2) : ~(Rows(i) \subseteq Range(h))

\* C9: once add_interaction has returned for interaction i, a get_history
\* call eventually returns a window with both of its rows, unless later
\* interactions have pushed it out of the window; also when the cache delete
\* failed and readers ran concurrently.
C9_EventuallyVisible ==
    \A i \in 1..MaxWrites : (i \in store.done) ~> (Seen(i) \/ Displaced(i))

\* The cache delete of the last write had failed, leaving an entry without the
\* new rows, and a later get_history returned them all the same.
C9_VisibleAfterFailedDelete ==
    /\ store.stale_left
    /\ ~store.invalidated
    /\ store.done = {1}
    /\ task[Writer].pc = "idle"
    /\ Seen(1)
    /\ ~Displaced(1)

\* created_at of the stored row with the identity x = <<id, role>>.
StampOf(x) ==
    messages[CHOOSE j \in 1..Len(messages) :
                <<messages[j].id, messages[j].role>> = x].created_at

Min(a, b) == IF a < b THEN a ELSE b

\* h is the window over the first n stored rows: min(2 x context_length, n)
\* different rows of them, none older than a row left out, oldest first.
IsNewestWindow(h, n) ==
    LET stored == {<<messages[j].id, messages[j].role>> : j \in 1..n}
    IN /\ Len(h) = Min(context_length * 2, n)
       /\ Range(h) \subseteq stored
       /\ \A a, b \in 1..Len(h) : a < b =>
            /\ h[a] # h[b]
            /\ StampOf(h[a]) <= StampOf(h[b])
       /\ \A x \in stored \ Range(h) : \A a \in 1..Len(h) :
            StampOf(x) <= StampOf(h[a])

\* One step of get_history seen from outside: what a call that has just
\* stored its window left in the cache, and what a call that has just been
\* answered from the cache returns.
GetHistoryStep ==
    \A t \in Tasks :
        /\ (~task[t].cached /\ task'[t].cached) =>
              /\ task'[t].read = "miss"
              /\ cache' = task'[t].history
        /\ (task[t].read # "hit" /\ task'[t].read = "hit") =>
              /\ cache # NoEntry
              /\ task'[t].history = cache
              /\ task'[t].n = 0
              /\ UNCHANGED <<messages, cache>>

\* C15: a get_history answered from the database holds the
\* min(2 x context_length, n) newest of the n stored rows, oldest first, and
\* stores that list in the cache; one answered from the cache returns the
\* cached list as it is and does not read the database.
C15_GetHistoryWindow ==
    /\ [](\A t \in Tasks : task[t].read = "miss"
                              => IsNewestWindow(task[t].history, task[t].n))
    /\ [][GetHistoryStep]_vars

\* One call read the 2 newest of 4 stored rows and cached them, and another
\* call was answered with that list from the cache.
C15_MissThenHit ==
    \E t, u \in Tasks :
        /\ task[t].pc = "returned"
        /\ task[t].cached
        /\ task[t].n = 4
        /\ Len(task[t].history) = 2
        /\ Range(task[t].history) = Rows(LastInteraction)
        /\ task[u].pc = "returned"
        /\ task[u].read = "hit"
        /\ task[u].history = task[t].history

\* C16: a cache failure never fails a store operation and never changes what
\* it returns: only a database failure raises, a get_history whose cache
\* operation raised returns the window read from the database, and an
\* add_interaction whose delete raised returns with both rows committed.
C16_CacheErrorsSwallowed ==
    \A t \in Tasks :
        /\ task[t].pc = "raised" => task[t].storage_failed
        /\ (HistoryReturned(t) /\ task[t].cache_failed) =>
              /\ task[t].read = "miss"
              /\ IsNewestWindow(task[t].history, task[t].n)
        /\ (task[t].pc = "returned" /\ task[t].id # 0) =>
              Cardinality(Stored(task[t].id)) = 2

\* A get_history whose cache read raised returned the stored rows, and an
\* add_interaction whose cache delete raised returned normally.
C16_BothSurvivedCacheFailure ==
    \E t, u \in Tasks :
        /\ HistoryReturned(t)
        /\ task[t].cache_failed
        /\ Len(task[t].history) = 2
        /\ task[u].pc = "returned"
        /\ task[u].id # 0
        /\ task[u].cache_failed
        /\ Cardinality(Stored(task[u].id)) = 2

\* An entry read from the database before the insert of interaction i and
\* stored after it: the entry lacks the rows of i while they are among the
\* newest stored rows.
Lacks(e, i) == e # NoEntry /\ ~Displaced(i) /\ ~(Rows(i) \subseteq Range(e))

\* C31: once add_interaction has returned for an interaction, and no cache
\* operation has failed, the cache holds no entry that lacks its two rows,
\* whatever get_history calls ran beside it.
C31_NoStaleEntryAfterWrite ==
    ~store.cache_error => \A i \in store.done : ~Lacks(cache, i)

\* A get_history call missed the cache, read the empty table, and stored its
\* window after the writer's delete; add_interaction has returned.
C31_StaleEntryAfterWrite ==
    /\ ~store.cache_error
    /\ store.done = {1}
    /\ task[Writer].pc = "idle"
    /\ Len(messages) = 2
    /\ Lacks(cache, 1)
    /\ \E t \in Readers : task[t].cached /\ task[t].n = 0 /\ cache = task[t].history

\* A window of whole interactions: each human row directly followed by the ai
\* row of the same interaction.
WholePairs(h) ==
    /\ Len(h) % 2 = 0
    /\ \A a \in 1..Len(h) :
         IF a % 2 = 1 THEN h[a][2] = "human"
         ELSE h[a][2] = "ai" /\ h[a][1] = h[a - 1][1]

\* C32: every window get_history returns consists of whole interactions, the
\* human row first and its ai row next.
C32_WholePairs ==
    \A t \in Tasks : HistoryReturned(t) => WholePairs(task[t].history)

\* With one interaction stored, whose two rows carry one created_at, the
\* window came back as the ai row followed by the human row.
C32_ReplyBeforeMessage ==
    \E t \in Tasks :
        /\ HistoryReturned(t)
        /\ Len(messages) = 2
        /\ store.adds = 1
        /\ task[t].history = << <<1, "ai">>, <<1, "human">> >>

(***************************************************************************)
(* Part 4.  The transport adapter (slack_handler.py, handle_message) with   *)
(* the turn orchestrator of Part 1 behind it.                               *)
(***************************************************************************)

\* What handle_message can put into the channel.
Posts == {"limit_notice", "text", "image", "audio", "error_notice"}

NewSlack == [posted |-> {}, failed |-> {}]

InitHandler ==
    /\ hpc = "idle"
    /\ event = "none"
    /\ allowed = FALSE
    /\ slack = NewSlack

\* An event arrives (slack_handler.py:68-82): events of bots, edits, deletions
\* and events without user or channel are dropped.
handle_message ==
    /\ hpc = "idle"
    /\ pc = "idle"
    /\ \E e \in {"ignored", "message", "audio"} :
         /\ event' = e
         /\ hpc' = IF e = "ignored" THEN "done" ELSE "is_allowed"
    /\ allowed' = FALSE
    /\ slack' = NewSlack
    /\ UNCHANGED <<varsTurn, varsLimiter, varsStore, varsShared, varsTools, varsGlobals>>

\* A handler that goes on to the agent whatever the limiter said.
AdmitAll(ok) == "agent"

\* if not allowed: post the notice and return (slack_handler.py:87-89).
Admission(ok) == IF ok THEN "agent" ELSE "notice"

\* allowed, remaining = await rate_limiter.is_allowed(user_id)
\* (slack_handler.py:84-87).  is_allowed
\* answers every call and never raises (database.py:234-263).
rate_limit_check ==
    /\ hpc = "is_allowed"
    /\ \E ok \in BOOLEAN :
         /\ allowed' = ok
         /\ hpc' = Admission(ok)
    /\ UNCHANGED <<event, slack>>
    /\ UNCHANGED <<varsTurn, varsLimiter, varsStore, varsShared, varsTools, varsGlobals>>

\* await client.chat_postMessage(... limit notice ...); return
\* (slack_handler.py:88-89).  A failing post is caught by the handler's except.
post_limit_notice ==
    /\ hpc = "notice"
    /\ \/ /\ slack' = [slack EXCEPT !.posted = @ \cup {"limit_notice"}]
          /\ hpc' = "done"
       \/ /\ slack' = [slack EXCEPT !.failed = @ \cup {"limit_notice"}]
          /\ hpc' = "except"
    /\ UNCHANGED <<event, allowed>>
    /\ UNCHANGED <<varsTurn, varsLimiter, varsStore, varsShared, varsTools, varsGlobals>>

\* The reaction, the user lookup (their failures are passed over), get_agent
\* and the call of the orchestrator (slack_handler.py:91-145).  get_agent
\* builds the agent on first use and may raise.
call_agent ==
    /\ hpc = "agent"
    /\ \/ /\ IF event = "audio" THEN StartAudio ELSE StartMessage
          /\ hpc' = "awaiting"
       \/ /\ hpc' = "except"
          /\ UNCHANGED varsTurn
    /\ UNCHANGED <<event, allowed, slack>>
    /\ UNCHANGED <<varsLimiter, varsStore, varsShared, varsTools, varsGlobals>>

\* A handler that sends every payload the result carries.
DeliverAll ==
    (IF result.audio_bytes THEN {"audio"} ELSE {})
    \cup (IF result.image_bytes THEN {"image"} ELSE {})
    \cup (IF truthy(result.text) THEN {"text"} ELSE {})

\* What the handler sends for a result (slack_handler.py:127-165): on the
\* audio path the audio, else the text; on the message path the image, else
\* the text; nothing for a result without any of them.
Delivery ==
    IF event = "audio"
      THEN IF result.audio_bytes THEN {"audio"}
           ELSE IF truthy(result.text) THEN {"text"} ELSE {}
      ELSE IF result.image_bytes THEN {"image"}
           ELSE IF truthy(result.text) THEN {"text"} ELSE {}

\* The orchestrator has returned; the result is sent and the reactions are
\* updated (slack_handler.py:127-180).  A failing upload or post is caught by
\* the handler's except.
send_result ==
    /\ hpc = "awaiting"
    /\ ResetTurn
    /\ \/ /\ slack' = [slack EXCEPT !.posted = @ \cup Delivery]
          /\ hpc' = "done"
       \/ /\ Delivery # {}
          /\ slack' = [slack EXCEPT !.failed = @ \cup Delivery]
          /\ hpc' = "except"
    /\ UNCHANGED <<event, allowed>>
    /\ UNCHANGED <<varsLimiter, varsStore, varsShared, varsTools, varsGlobals>>

\* except Exception (slack_handler.py:182-195): the error notice is posted; a
\* failure of that post leaves handle_message as an exception.
handle_except ==
    /\ hpc = "except"
    /\ \/ /\ slack' = [slack EXCEPT !.posted = @ \cup {"error_notice"}]
          /\ hpc' = "done"
       \/ /\ slack' = [slack EXCEPT !.failed = @ \cup {"error_notice"}]
          /\ hpc' = "raised"
    /\ UNCHANGED <<event, allowed>>
    /\ UNCHANGED <<varsTurn, varsLimiter, varsStore, varsShared, varsTools, varsGlobals>>

\* handle_message is over; the next event can be taken.
handle_done ==
    /\ hpc \in {"done", "raised"}
    /\ hpc' = "idle"
    /\ event' = "none"
    /\ allowed' = FALSE
    /\ slack' = NewSlack
    /\ UNCHANGED <<varsTurn, varsLimiter, varsStore, varsShared, varsTools, varsGlobals>>

\* The handler, and the steps of the turn it has started.
NextHandler ==
    \/ handle_message
    \/ rate_limit_check
    \/ post_limit_notice
    \/ call_agent
    \/ log_request
    \/ memory_get_history
    \/ send_message
    \/ while_loop
    \/ call_function
    \/ image_generation
    \/ send_function_result
    \/ final_text
    \/ memory_add_interaction
    \/ transcribe
    \/ audio_response
    \/ send_result
    \/ handle_except
    \/ handle_done

(***************************************************************************)
(* The claims about the transport adapter, checked under SpecHandler.       *)
(***************************************************************************)

\* The event was checked by the limiter and denied.
DeniedEvent == hpc \in {"notice", "except", "done", "raised"}
               /\ event \in {"message", "audio"} /\ ~allowed

\* The orchestrator was not entered for the event: no turn runs and nothing
\* was submitted, executed or stored.
OrchestratorUntouched == pc = "idle" /\ entry = "none" /\ calls = NewCalls

\* C19 (as stated): a denied event never reaches the orchestrator, and nothing
\* but the limit notice is posted for it.
C19_DeniedOnlyNotice ==
    DeniedEvent => (OrchestratorUntouched /\ slack.posted \subseteq {"limit_notice"})

\* C19 (amended): a denied event never reaches the orchestrator, and what is
\* posted for it is the limit notice or, when that post failed, the error
\* notice; never an answer.
C19_DeniedNeverProcessed ==
    DeniedEvent =>
        /\ OrchestratorUntouched
        /\ slack.posted \subseteq {"limit_notice", "error_notice"}
        /\ "error_notice" \in slack.posted => "limit_notice" \in slack.failed
        /\ "limit_notice" \in slack.posted => slack.posted = {"limit_notice"}

C19_DeniedAndNoticed ==
    /\ hpc = "done"
    /\ event = "audio"
    /\ ~allowed
    /\ slack.posted = {"limit_notice"}
    /\ OrchestratorUntouched

\* The payload fields a result has set.
PayloadsSet ==
    (IF truthy(result.text) THEN {"text"} ELSE {})
    \cup (IF result.image_bytes THEN {"image"} ELSE {})
    \cup (IF result.audio_bytes THEN {"audio"} ELSE {})

Identities == {"U1", "U2"}

\* Interactions one identity may store in one run.
MaxTurns == 2

\* What a key holds: nothing, a counter (the decimal string of an integer), or
\* a history (the JSON text of a list of role and content pairs).
Absent == [kind |-> "absent", val |-> 0, list |-> <<>>]
Counter(n) == [kind |-> "counter", val |-> n, list |-> <<>>]
Cached(history) == [kind |-> "history", val |-> 0, list |-> history]

\* key = f"rate_limit:{user_id}" (database.py:243).
rate_limit_key(user_id) == <<"rate_limit", user_id>>

\* cache_key = f"chat_history:{self.session_id}" (database.py:99, 154, 177).
cache_key(session_id) == <<"chat_history", session_id>>

Keys == {rate_limit_key(i) : i \in Identities} \cup {cache_key(i) : i \in Identities}

\* The operations an identity starts; process_message reads the history and
\* stores the interaction through one ChatMemory(user_id) (agent.py:224-225, 292).
Operations == {"is_allowed", "get_history", "add_interaction", "process_message"}

IdleIdentity == [pc |-> "idle", op |-> "none", current |-> Absent, history |-> <<>>,
                 turns |-> 0]

InitShared ==
    /\ history_table = <<>>
    /\ keys = [k \in Keys |-> Absent]
    /\ who = [i \in Identities |-> IdleIdentity]

\* A query without its WHERE clause.
AnySession(row, session_id) == TRUE

\* WHERE session_id = $1 (database.py:117).
WhereSession(row, session_id) == row.session_id = session_id

\* SELECT role, content ... WHERE session_id = $1 ORDER BY created_at DESC
\* LIMIT $2, reversed (database.py:111-124); rows are committed in the order of
\* their created_at.
FetchHistory(session_id) ==
    LET Test(r) == WhereSession(r, session_id)
        mine == SelectSeq(history_table, Test)
        n == Min(context_length * 2, Len(mine))
    IN [a \in 1..n |-> [role |-> mine[Len(mine) - n + a].role,
                        content |-> mine[Len(mine) - n + a].content]]

\* An operation begins for identity i.
begin(i) ==
    /\ who[i].pc = "idle"
    /\ \E op \in Operations :
         /\ op \in {"add_interaction", "process_message"} => who[i].turns < MaxTurns
         /\ who' = [who EXCEPT ![i] =
                      [IdleIdentity EXCEPT
                         !.op = op,
                         !.turns = who[i].turns,
                         !.pc = CASE op = "is_allowed" -> "redis_get"
                                  [] op = "add_interaction" -> "insert"
                                  [] OTHER -> "cache_get"]]
    /\ UNCHANGED <<history_table, keys>>
    /\ UNCHANGED <<varsTurn, varsLimiter, varsStore, varsHandler, varsTools, varsGlobals>>

\* current = await redis_client.get(key) and the branch on it
\* (database.py:243-252).
counter_get(i) ==
    /\ who[i].pc = "redis_get"
    /\ LET current == keys[rate_limit_key(i)]
       IN who' = [who EXCEPT ![i].current = current,
                             ![i].pc = IF current = Absent THEN "redis_setex"
                                       ELSE IF current.val >= max_requests THEN "idle"
                                       ELSE "redis_incr"]
    /\ UNCHANGED <<history_table, keys>>
    /\ UNCHANGED <<varsTurn, varsLimiter, varsStore, varsHandler, varsTools, varsGlobals>>

\* await redis_client.setex(key, self.window_seconds, 1) (database.py:247).
counter_setex(i) ==
    /\ who[i].pc = "redis_setex"
    /\ keys' = [keys EXCEPT ![rate_limit_key(i)] = Counter(1)]
    /\ who' = [who EXCEPT ![i].pc = "idle"]
    /\ UNCHANGED history_table
    /\ UNCHANGED <<varsTurn, varsLimiter, varsStore, varsHandler, varsTools, varsGlobals>>

\* await redis_client.incr(key) (database.py:254).
counter_incr(i) ==
    /\ who[i].pc = "redis_incr"
    /\ keys' = [keys EXCEPT ![rate_limit_key(i)] =
                              IF @ = Absent THEN Counter(1) ELSE Counter(@.val + 1)]
    /\ who' = [who EXCEPT ![i].pc = "idle"]
    /\ UNCHANGED history_table
    /\ UNCHANGED <<varsTurn, varsLimiter, varsStore, varsHandler, varsTools, varsGlobals>>

\* Where get_history returns to: the caller, or on into add_interaction for a
\* process_message.
AfterGetHistory(i) == IF who[i].op = "process_message" THEN "insert" ELSE "idle"

\* cached = await redis_client.get(cache_key) (database.py:103-106).
history_cache_get(i) ==
    /\ who[i].pc = "cache_get"
    /\ LET cached == keys[cache_key(i)]
       IN who' = IF cached # Absent
                   THEN [who EXCEPT ![i].history = cached.list,
                                    ![i].pc = AfterGetHistory(i)]
                   ELSE [who EXCEPT ![i].pc = "fetch"]
    /\ UNCHANGED <<history_table, keys>>
    /\ UNCHANGED <<varsTurn, varsLimiter, varsStore, varsHandler, varsTools, varsGlobals>>

\* rows = await conn.fetch(...) (database.py:110-124).
history_fetch(i) ==
    /\ who[i].pc = "fetch"
    /\ who' = [who EXCEPT ![i].history = FetchHistory(i), ![i].pc = "cache_setex"]
    /\ UNCHANGED <<history_table, keys>>
    /\ UNCHANGED <<varsTurn, varsLimiter, varsStore, varsHandler, varsTools, varsGlobals>>

\* await redis_client.setex(cache_key, 300, json.dumps(history)); return history
\* (database.py:127-133).
history_cache_setex(i) ==
    /\ who[i].pc = "cache_setex"
    /\ keys' = [keys EXCEPT ![cache_key(i)] = Cached(who[i].history)]
    /\ who' = [who EXCEPT ![i].pc = AfterGetHistory(i)]
    /\ UNCHANGED history_table
    /\ UNCHANGED <<varsTurn, varsLimiter, varsStore, varsHandler, varsTools, varsGlobals>>

\* INSERT ... VALUES ($1, 'human', $2, NOW()), ($1, 'ai', $3, NOW())
\* (database.py:158-171).  The content carries who wrote it and which of its
\* interactions it is.
interaction_insert(i) ==
    /\ who[i].pc = "insert"
    /\ history_table' = history_table \o <<[session_id |-> i, role |-> "human",
                          content |-> <<i, who[i].turns + 1>>],
                         [session_id |-> i, role |-> "ai",
                          content |-> <<i, who[i].turns + 1>>]>>
    /\ who' = [who EXCEPT ![i].turns = @ + 1, ![i].pc = "cache_delete"]
    /\ UNCHANGED keys
    /\ UNCHANGED <<varsTurn, varsLimiter, varsStore, varsHandler, varsTools, varsGlobals>>

\* await redis_client.delete(f"chat_history:{self.session_id}") (database.py:173-179).
interaction_cache_delete(i) ==
    /\ who[i].pc = "cache_delete"
    /\ keys' = [keys EXCEPT ![cache_key(i)] = Absent]
    /\ who' = [who EXCEPT ![i].pc = "idle"]
    /\ UNCHANGED history_table
    /\ UNCHANGED <<varsTurn, varsLimiter, varsStore, varsHandler, varsTools, varsGlobals>>

\* The backend drops a key whose time to live is over (database.py:127, 247).
key_expires ==
    /\ \E k \in Keys :
         /\ keys[k] # Absent
         /\ keys' = [keys EXCEPT ![k] = Absent]
    /\ UNCHANGED <<history_table, who>>
    /\ UNCHANGED <<varsTurn, varsLimiter, varsStore, varsHandler, varsTools, varsGlobals>>

NextShared ==
    \/ \E i \in Identities : begin(i)
    \/ \E i \in Identities : counter_get(i)
    \/ \E i \in Identities : counter_setex(i)
    \/ \E i \in Identities : counter_incr(i)
    \/ \E i \in Identities : history_cache_get(i)
    \/ \E i \in Identities : history_fetch(i)
    \/ \E i \in Identities : history_cache_setex(i)
    \/ \E i \in Identities : interaction_insert(i)
    \/ \E i \in Identities : interaction_cache_delete(i)
    \/ key_expires

(***************************************************************************)
(* The claim about identities, checked under SpecShared.                    *)
(***************************************************************************)

\* What belongs to identity b in a table t and a keyspace k.
OwnState(t, k, b) ==
    LET Mine(r) == r.session_id = b
    IN <<SelectSeq(t, Mine), k[<<"rate_limit", b>>], k[<<"chat_history", b>>]>>

\* A step of an operation of identity a leaves what belongs to every other
\* identity as it was, and a counter read is a read of a's own counter.
IsolatedStep ==
    \A a \in Identities :
        who'[a] # who[a] =>
            /\ \A b \in Identities \ {a} : OwnState(history_table', keys', b) = OwnState(history_table, keys, b)
            /\ who[a].pc = "redis_get" => who'[a].current = keys[<<"rate_limit", a>>]

\* What an identity holds was written by that identity.
OwnData ==
    /\ \A i \in Identities : \A n \in 1..Len(who[i].history) :
           who[i].history[n].content[1] = i
    /\ \A n \in 1..Len(history_table) : history_table[n].session_id = history_table[n].content[1]
    /\ \A i \in Identities :
           \A n \in 1..Len(keys[<<"chat_history", i>>].list) :
               keys[<<"chat_history", i>>].list[n].content[1] = i

\* C23: under any interleaving, an operation for one identity never reads or
\* changes the message log, the cache entry or the counter of another one.
C23_IdentitiesIsolated == []OwnData /\ [][IsolatedStep]_vars

C23_BothActive ==
    /\ \A i \in Identities : who[i].turns = MaxTurns /\ who[i].pc = "idle"
    /\ who["U1"].op = "get_history" /\ Len(who["U1"].history) = context_length * 2
    /\ who["U2"].op = "is_allowed"
    /\ history_table[1].session_id = "U2"
    /\ \A k \in Keys : keys[k] # Absent

(***************************************************************************)
(* Part 6.  The tools.  A tool call takes its input and returns a string;   *)
(* the model keeps the input and the returned string by their structure.    *)
(***************************************************************************)

\* No tool call is in progress.
NoTool == [name |-> "none"]

InitTools == tool = NoTool

\* The caller has the returned string.
tool_return ==
    /\ tool.name # "none"
    /\ tool' = NoTool
    /\ UNCHANGED <<varsTurn, varsLimiter, varsStore, varsHandler, varsShared, varsGlobals>>

(***************************************************************************)
(* Part 6a.  CalculatorTool (tools/calculator.py).  An expression is the    *)
(* tree ast.parse builds for it.  Python's int is exact; a float is kept as *)
(* the exact fraction it stands for, which is what the float is for every   *)
(* expression of the sizes below except a root that has no fraction         *)
(* ("irrational") and a root of a negative number ("complex").              *)
(***************************************************************************)

Abs(n) == IF n < 0 THEN 0 - n ELSE n

RECURSIVE GCD(_, _)
GCD(a, b) == IF b = 0 THEN a ELSE GCD(b, a % b)

RECURSIVE IntPow(_, _)
IntPow(b, k) == IF k = 0 THEN 1 ELSE b * IntPow(b, k - 1)

\* The fraction n/d in lowest terms with a positive denominator.
Q(n, d) ==
    LET g == GCD(Abs(n), Abs(d))
        sgn == IF d < 0 THEN 0 - 1 ELSE 1
    IN [n |-> (sgn * n) \div g, d |-> Abs(d) \div g]

QAdd(a, b) == Q(a.n * b.d + b.n * a.d, a.d * b.d)
QSub(a, b) == Q(a.n * b.d - b.n * a.d, a.d * b.d)
QMul(a, b) == Q(a.n * b.n, a.d * b.d)
QDiv(a, b) == Q(a.n * b.d, a.d * b.n)
QFloor(a) == Q(a.n \div a.d, 1)
QMod(a, b) == QSub(a, QMul(b, QFloor(QDiv(a, b))))
QPowInt(a, k) ==
    IF k >= 0 THEN Q(IntPow(a.n, k), IntPow(a.d, k))
    ELSE Q(IntPow(a.d, 0 - k), IntPow(a.n, 0 - k))

\* The m-th root of x >= 0 when it is an integer, else -1.
Root(x, m) ==
    LET c == {y \in 0..x : IntPow(y, m) = x}
    IN IF c = {} THEN 0 - 1 ELSE CHOOSE y \in c : TRUE

\* a ** (p/m) for a > 0 and m > 1: a fraction, or no fraction ("irrational").
QPowFrac(a, e) ==
    LET rn == Root(a.n, e.d)
        rd == Root(a.d, e.d)
    IN IF rn >= 0 /\ rd >= 0 THEN [kind |-> "fraction", q |-> QPowInt(Q(rn, rd), e.n)]
       ELSE [kind |-> "irrational", q |-> Q(0, 1)]

\* SAFE_OPERATORS (calculator.py:6-16): the operator function of each
\* whitelisted ast operator type.
SAFE_OPERATORS ==
    [Add |-> "add", Sub |-> "sub", Mult |-> "mul", Div |-> "truediv",
     FloorDiv |-> "floordiv", Mod |-> "mod", Pow |-> "pow", USub |-> "neg",
     UAdd |-> "pos"]

\* SAFE_FUNCTIONS (calculator.py:18-34): the callables and the two constants.
SafeCallables ==
    {"abs", "round", "min", "max", "sum", "sqrt", "sin", "cos", "tan", "log",
     "log10", "exp", "pow"}

SafeConstants == {"pi", "e"}

SAFE_FUNCTIONS == SafeCallables \cup SafeConstants

\* What an evaluation yields: a Python value (k is "int", "bool", "float",
\* "irrational" for a float without a fraction, "complex"), or the exception
\* it raised (k is the exception class, msg what it was about).  used: the
\* entries of the two tables that were applied on the way.
Value(k, q, used) == [k |-> k, n |-> q.n, d |-> q.d, msg |-> "", used |-> used]

Raise(exception, msg, used) == [k |-> exception, n |-> 0, d |-> 1, msg |-> msg, used |-> used]

Exceptions == {"ZeroDivisionError", "ValueError", "TypeError", "SyntaxError"}

IsRaised(v) == v.k \in Exceptions

Frac(v) == [n |-> v.n, d |-> v.d]

IsFloat(v) == v.k \in {"float", "irrational"}

\* The numeric tower: a float operand makes the result a float.
Wider(l, r) == IF IsFloat(l) \/ IsFloat(r) THEN "float" ELSE "int"

\* The Python operators the table names, on values that have a fraction
\* (operator.add ... operator.pos).
exact_call(f, l, r, used) ==
    LET a == Frac(l)
        b == Frac(r)
        zero == b.n = 0
    IN CASE f = "add" -> Value(Wider(l, r), QAdd(a, b), used)
         [] f = "sub" -> Value(Wider(l, r), QSub(a, b), used)
         [] f = "mul" -> Value(Wider(l, r), QMul(a, b), used)
         [] f = "truediv" ->
              IF zero THEN Raise("ZeroDivisionError", "division", used)
              ELSE Value("float", QDiv(a, b), used)
         [] f = "floordiv" ->
              IF zero THEN Raise("ZeroDivisionError", "division", used)
              ELSE Value(Wider(l, r), QFloor(QDiv(a, b)), used)
         [] f = "mod" ->
              IF zero THEN Raise("ZeroDivisionError", "division", used)
              ELSE Value(Wider(l, r), QMod(a, b), used)
         [] f = "pow" ->
              IF b.d = 1
                THEN IF a.n = 0 /\ b.n < 0
                       THEN Raise("ZeroDivisionError", "negative power of zero", used)
                       ELSE Value(IF b.n < 0 THEN "float" ELSE Wider(l, r),
                                  QPowInt(a, b.n), used)
              ELSE IF a.n = 0
                THEN IF b.n > 0 THEN Value("float", Q(0, 1), used)
                     ELSE Raise("ZeroDivisionError", "negative power of zero", used)
              ELSE IF a.n < 0 THEN Value("complex", Q(0, 1), used)
              ELSE LET p == QPowFrac(a, b)
                   IN Value(IF p.kind = "fraction" THEN "float" ELSE "irrational", p.q, used)
         [] f = "neg" -> Value(Wider(l, l), QSub(Q(0, 1), a), used)
         [] f = "pos" -> Value(Wider(l, l), a, used)

\* The operators on any two numbers.  A float without a fraction is kept by
\* an approximation and makes the result one without a fraction; no expression
\* of this model has such an operand under an operator.
operator_call(f, l, r, used) ==
    LET value == exact_call(f, l, r, used)
    IN IF ~IsRaised(value) /\ "irrational" \in {l.k, r.k}
         THEN [value EXCEPT !.k = "irrational"]
         ELSE value

\* math.pi and math.e (calculator.py:32-33), by an approximation.
SafeConstant(name) == IF name = "pi" THEN Q(22, 7) ELSE Q(19, 7)

\* The whitelisted callables this model applies (abs, min, max, math.sqrt);
\* a wrong number of arguments is a TypeError.
function_call(name, args, used) ==
    CASE name = "abs" ->
           IF Len(args) # 1 THEN Raise("TypeError", "arguments", used)
           ELSE Value(IF args[1].k = "irrational" THEN "irrational"
                      ELSE Wider(args[1], args[1]),
                      Q(Abs(args[1].n), args[1].d), used)
      [] name \in {"max", "min"} ->
           IF Len(args) < 2 THEN Raise("TypeError", "arguments", used)
           ELSE LET Better(x, y) == IF name = "max" THEN x.n * y.d > y.n * x.d
                                    ELSE x.n * y.d < y.n * x.d
                    best == CHOOSE i \in 1..Len(args) :
                              /\ \A j \in 1..Len(args) : ~Better(args[j], args[i])
                              /\ \A j \in 1..(i - 1) : Better(args[i], args[j])
                IN [args[best] EXCEPT !.used = used]
      [] name = "sqrt" ->
           IF Len(args) # 1 THEN Raise("TypeError", "arguments", used)
           ELSE IF args[1].n < 0 THEN Raise("ValueError", "math domain error", used)
           ELSE IF args[1].n = 0 THEN Value("float", Q(0, 1), used)
           ELSE LET p == QPowFrac(Frac(args[1]), Q(1, 2))
                IN Value(IF p.kind = "fraction" /\ args[1].k # "irrational"
                         THEN "float" ELSE "irrational", p.q, used)
      [] OTHER -> Value("irrational", Q(0, 1), used)

\* node.id.lower() (calculator.py:66, 77) for the names of this model.
lower(id) ==
    CASE id = "ABS" -> "abs"
      [] id = "PI" -> "pi"
      [] OTHER -> id

\* The first exception among evaluated arguments, or 0.
FirstRaised(vals) ==
    LET bad == {i \in 1..Len(vals) : IsRaised(vals[i])}
    IN IF bad = {} THEN 0 ELSE CHOOSE i \in bad : \A j \in bad : i <= j

\* The table entries applied while vals[1..n] were evaluated.
RECURSIVE UsedUpTo(_, _)
UsedUpTo(vals, n) == IF n = 0 THEN {} ELSE UsedUpTo(vals, n - 1) \cup vals[n].used

\* CalculatorTool._eval_node (calculator.py:43-88).
RECURSIVE eval_node(_)
eval_node(node) ==
    CASE node.t = "Constant" ->
           IF node.kind \in {"int", "float", "bool"}
             THEN Value(node.kind, Q(node.v, 1), {})
             ELSE Raise("ValueError", "Unsupported constant", {})
      [] node.t = "BinOp" ->
           IF node.op \notin DOMAIN SAFE_OPERATORS
             THEN Raise("ValueError", "Unsupported operator", {})
             ELSE LET left == eval_node(node.left)
                  IN IF IsRaised(left) THEN left
                     ELSE LET right == eval_node(node.right)
                          IN IF IsRaised(right)
                               THEN [right EXCEPT !.used = left.used \cup @]
                               ELSE operator_call(SAFE_OPERATORS[node.op], left, right,
                                                  left.used \cup right.used
                                                     \cup {SAFE_OPERATORS[node.op]})
      [] node.t = "UnaryOp" ->
           IF node.op \notin DOMAIN SAFE_OPERATORS
             THEN Raise("ValueError", "Unsupported operator", {})
             ELSE LET operand == eval_node(node.operand)
                  IN IF IsRaised(operand) THEN operand
                     ELSE operator_call(SAFE_OPERATORS[node.op], operand, operand,
                                        operand.used \cup {SAFE_OPERATORS[node.op]})
      [] node.t = "Call" ->
           IF node.func.t # "Name"
             THEN Raise("ValueError", "Unsupported function call", {})
           ELSE IF lower(node.func.id) \notin SAFE_FUNCTIONS
             THEN Raise("ValueError", "Unsupported function", {})
           ELSE LET args == [i \in 1..Len(node.args) |-> eval_node(node.args[i])]
                    bad == FirstRaised(args)
                    func_name == lower(node.func.id)
                IN IF bad # 0 THEN [args[bad] EXCEPT !.used = UsedUpTo(args, bad)]
                   ELSE IF func_name \in SafeCallables
                     THEN function_call(func_name, args,
                                        UsedUpTo(args, Len(args)) \cup {func_name})
                   ELSE Value("irrational", SafeConstant(func_name),
                              UsedUpTo(args, Len(args)) \cup {func_name})
      [] node.t = "Name" ->
           IF lower(node.id) \in SafeConstants
             THEN Value("irrational", SafeConstant(lower(node.id)), {lower(node.id)})
             ELSE Raise("ValueError", "Unknown variable", {})
      [] node.t = "Expression" -> eval_node(node.body)
      [] OTHER -> Raise("ValueError", "Unsupported expression", {})

\* The strings execute returns (calculator.py:102-106).
DivisionByZeroText == "Error: Division por cero"
CalculationErrorText == "Error en el calculo: <e>"

\* str(result): the text of a number, by the form it is written in.
str(v) == [text |-> "result", form |-> v.k, n |-> v.n, d |-> v.d, used |-> v.used]

ErrorString(text, v) == [text |-> text, form |-> "error", n |-> 0, d |-> 1, used |-> v.used]

\* An execute that prints a float as it is.
KeepFloat(value) == value

\* if isinstance(result, float) and result.is_integer(): result = int(result)
\* (calculator.py:99-100).
IntegerForm(value) ==
    IF value.k = "float" /\ value.d = 1 THEN [value EXCEPT !.k = "int"] ELSE value

\* An execute whose only handler is the generic one.
ExceptGeneric(v) == ErrorString(CalculationErrorText, v)

\* except ZeroDivisionError / except Exception (calculator.py:103-106).
Except(v) ==
    IF v.k = "ZeroDivisionError" THEN ErrorString(DivisionByZeroText, v)
    ELSE ErrorString(CalculationErrorText, v)

\* ast.parse(expression, mode='eval') (calculator.py:95) for a text that is an
\* expression: its tree under an Expression node.
ast_parse(expression) == [t |-> "Expression", body |-> expression]

\* CalculatorTool.execute (calculator.py:90-106); a text that is no expression
\* makes ast.parse raise a SyntaxError.
CalculatorExecute(expression) ==
    IF expression.t = "SyntaxError"
      THEN Except(Raise("SyntaxError", "invalid syntax", {}))
      ELSE LET value == eval_node(ast_parse(expression))
           IN IF IsRaised(value) THEN Except(value)
              ELSE str(IntegerForm(value))

\* The expressions the tool is called with.
Literals == {0, 1, 2}

Const(n) == [t |-> "Constant", kind |-> "int", v |-> n]
Name(id) == [t |-> "Name", id |-> id]
BinOp(op, l, r) == [t |-> "BinOp", op |-> op, left |-> l, right |-> r]
UnaryOp(op, x) == [t |-> "UnaryOp", op |-> op, operand |-> x]
Call(func, args, keywords) ==
    [t |-> "Call", func |-> func, args |-> args, keywords |-> keywords]

ArithmeticOps == {"Add", "Sub", "Mult", "Div", "FloorDiv", "Mod", "Pow"}
SignOps == {"USub", "UAdd"}

\* One more level of the arithmetic grammar over the expressions of S.
Deeper(S) ==
    S \cup {BinOp(op, l, r) : op \in ArithmeticOps, l \in S, r \in S}
      \cup {UnaryOp(op, x) : op \in SignOps, x \in S}

\* Integer literals under at most two levels of + - * / // % ** and signs.
ArithmeticExpressions == Deeper(Deeper({Const(n) : n \in Literals}))

\* Leaves inside and outside the whitelist: numbers, a string, True, the
\* constant pi in two spellings, an unknown name, a callable's bare name, and
\* a node type _eval_node has no branch for.
Leaves ==
    {Const(0), Const(1),
     [t |-> "Constant", kind |-> "str", v |-> 0],
     [t |-> "Constant", kind |-> "bool", v |-> 1],
     Name("pi"), Name("PI"), Name("foo"), Name("abs"),
     [t |-> "Lambda"]}

Arguments == {<<>>} \cup {<<x>> : x \in Leaves} \cup {<<x, y>> : x \in Leaves, y \in Leaves}

\* The leaves that stand under an operator.
OperandLeaves == Leaves \ {Name("pi"), Name("PI")}

\* One level over the leaves with operators and calls inside and outside the
\* whitelist; a call may carry one keyword argument.
OneLevel ==
    {BinOp(op, l, r) : op \in {"Add", "Div", "BitAnd"},
                       l \in OperandLeaves, r \in OperandLeaves}
    \cup {UnaryOp(op, x) : op \in {"USub", "Invert"}, x \in Leaves}
    \cup {Call(f, args, kw) :
            f \in {Name("abs"), Name("max"), Name("sqrt"), Name("ABS"), Name("pi"),
                   Name("foo"), [t |-> "Attribute"]},
            args \in Arguments,
            kw \in {<<>>, <<Const(1)>>, <<Name("foo")>>}}

\* Two operands that raise for different reasons, in both orders.
Operands ==
    {Const(1), Name("foo"), BinOp("Div", Const(1), Const(0)),
     BinOp("BitAnd", Const(1), Const(1)),
     Call(Name("abs"), <<BinOp("Mod", Const(1), Const(0))>>, <<>>),
     Call(Name("max"), <<Const(1), Const(0)>>, <<Name("foo")>>)}

TwoLevels == {BinOp(op, l, r) : op \in {"Add", "FloorDiv"}, l \in Operands, r \in Operands}

Expressions ==
    ArithmeticExpressions \cup Leaves \cup OneLevel \cup TwoLevels
        \cup {[t |-> "SyntaxError"]}

\* await calculator.execute(expression) (calculator.py:90-106).
calculator_execute ==
    /\ tool.name = "none"
    /\ \E expression \in Expressions :
         tool' = [name |-> "calculator", input |-> expression,
                  output |-> CalculatorExecute(expression)]
    /\ UNCHANGED <<varsTurn, varsLimiter, varsStore, varsHandler, varsShared, varsGlobals>>

NextCalculator ==
    \/ calculator_execute
    \/ tool_return

(***************************************************************************)
(* The claims about the calculator, checked under SpecCalculator.           *)
(***************************************************************************)

\* The expression names something outside the whitelist: an operator or a
\* function that is in neither table, an unknown name, a constant that is no
\* number, a call of something that is no name, or another kind of node;
\* anywhere in it, keyword arguments included.
RECURSIVE Foreign(_)
Foreign(node) ==
    CASE node.t = "Constant" -> node.kind \notin {"int", "float", "bool"}
      [] node.t = "BinOp" ->
           node.op \notin DOMAIN SAFE_OPERATORS \/ Foreign(node.left) \/ Foreign(node.right)
      [] node.t = "UnaryOp" ->
           node.op \notin DOMAIN SAFE_OPERATORS \/ Foreign(node.operand)
      [] node.t = "Call" ->
           \/ node.func.t # "Name"
           \/ node.func.t = "Name" /\ lower(node.func.id) \notin SAFE_FUNCTIONS
           \/ \E i \in 1..Len(node.args) : Foreign(node.args[i])
           \/ \E i \in 1..Len(node.keywords) : Foreign(node.keywords[i])
      [] node.t = "Name" -> lower(node.id) \notin SAFE_FUNCTIONS
      [] node.t = "SyntaxError" -> FALSE
      [] OTHER -> TRUE

IsErrorString(output) == output.text \in {DivisionByZeroText, CalculationErrorText}

\* The names of everything the two tables hold.
SafeNames == {SAFE_OPERATORS[op] : op \in DOMAIN SAFE_OPERATORS} \cup SAFE_FUNCTIONS

CalculatorReturned == tool.name = "calculator"

\* C24: for an expression that names something outside the whitelist, execute
\* returns an error string and has applied nothing but whitelisted entries.
C24_ForeignRejected ==
    (CalculatorReturned /\ Foreign(tool.input)) =>
        /\ IsErrorString(tool.output)
        /\ tool.output.used \subseteq SafeNames

C24_KeywordNameIgnored ==
    /\ CalculatorReturned
    /\ tool.input = Call(Name("max"), <<Const(1), Const(0)>>, <<Name("foo")>>)
    /\ tool.output.text = "result"
    /\ tool.output.form = "int" /\ tool.output.n = 1

\* The value of an arithmetic expression by the rules of arithmetic: a
\* fraction, a root without a fraction, a root of a negative number, or none
\* (a division by zero).
Fraction(q) == [kind |-> "fraction", q |-> q]
Undefined == [kind |-> "undefined", q |-> Q(0, 1)]

RECURSIVE Direct(_)
Direct(node) ==
    IF node.t = "Constant" THEN Fraction(Q(node.v, 1))
    ELSE IF node.t = "UnaryOp"
      THEN LET x == Direct(node.operand)
           IN IF x.kind # "fraction" THEN x
              ELSE IF node.op = "USub" THEN Fraction(QSub(Q(0, 1), x.q)) ELSE x
    ELSE LET l == Direct(node.left)
             r == Direct(node.right)
         IN IF l.kind # "fraction" THEN l
            ELSE IF r.kind # "fraction" THEN r
            ELSE CASE node.op = "Add" -> Fraction(QAdd(l.q, r.q))
                   [] node.op = "Sub" -> Fraction(QSub(l.q, r.q))
                   [] node.op = "Mult" -> Fraction(QMul(l.q, r.q))
                   [] node.op = "Div" ->
                        IF r.q.n = 0 THEN Undefined ELSE Fraction(QDiv(l.q, r.q))
                   [] node.op = "FloorDiv" ->
                        IF r.q.n = 0 THEN Undefined ELSE Fraction(QFloor(QDiv(l.q, r.q)))
                   [] node.op = "Mod" ->
                        IF r.q.n = 0 THEN Undefined ELSE Fraction(QMod(l.q, r.q))
                   [] node.op = "Pow" ->
                        IF l.q.n = 0 /\ r.q.n < 0 THEN Undefined
                        ELSE IF r.q.d = 1 THEN Fraction(QPowInt(l.q, r.q.n))
                        ELSE IF l.q.n = 0 THEN Fraction(Q(0, 1))
                        ELSE IF l.q.n < 0 THEN [kind |-> "complex", q |-> Q(0, 1)]
                        ELSE QPowFrac(l.q, r.q)

\* The decimal text of a value: without a fractional part when it is integral.
DecimalText(x) ==
    [text |-> "result",
     form |-> IF x.kind = "fraction" THEN (IF x.q.d = 1 THEN "int" ELSE "float")
              ELSE x.kind,
     n |-> x.q.n, d |-> x.q.d]

Shown(output) == [text |-> output.text, form |-> output.form, n |-> output.n, d |-> output.d]

\* C25: for an arithmetic expression that has a value, execute returns the
\* decimal text of that value, an integral float in integer form.
C25_DirectEvaluation ==
    (CalculatorReturned /\ tool.input \in ArithmeticExpressions
        /\ Direct(tool.input).kind # "undefined") =>
        Shown(tool.output) = DecimalText(Direct(tool.input))

C25_IntegralFloat ==
    /\ CalculatorReturned
    /\ tool.input = BinOp("Div", BinOp("Mult", Const(2), Const(2)), Const(2))
    /\ Shown(tool.output) = [text |-> "result", form |-> "int", n |-> 2, d |-> 1]

\* The evaluation divided by zero with /, // or %.
DividedByZero(expression) ==
    /\ expression.t # "SyntaxError"
    /\ LET value == eval_node(ast_parse(expression))
       IN value.k = "ZeroDivisionError" /\ value.msg = "division"

\* C26: an evaluation that divides by zero with /, // or % makes execute
\* return the division-by-zero string, which is not the generic error string.
C26_DivisionByZeroString ==
    /\ DivisionByZeroText # CalculationErrorText
    /\ (CalculatorReturned /\ DividedByZero(tool.input)) =>
           tool.output.text = DivisionByZeroText

C26_ModuloByZeroInsideCall ==
    /\ CalculatorReturned
    /\ tool.input = BinOp("Add", Call(Name("abs"), <<BinOp("Mod", Const(1), Const(0))>>, <<>>),
                          Name("foo"))
    /\ tool.output.text = DivisionByZeroText

(***************************************************************************)
(* Part 6b.  DocumentAnalysisTool (tools/document_analysis.py).  A text is  *)
(* kept by where it comes from and by its length in characters.             *)
(***************************************************************************)

\* The keys of SUPPORTED_EXTENSIONS (document_analysis.py:20-36).
SUPPORTED_EXTENSIONS ==
    {".pdf", ".xlsx", ".xls", ".docx", ".doc", ".pptx", ".ppt", ".csv", ".txt",
     ".rtf", ".html", ".xml", ".json", ".ods", ".ics"}

\* The suffixes of the downloaded file names: the declared ones, two of them
\* in capitals, an undeclared one and none.
Suffixes == SUPPORTED_EXTENSIONS \cup {".PDF", ".Json", ".xyz", ""}

\* Path(filename).suffix.lower() (document_analysis.py:61-63).
get_extension(suffix) ==
    CASE suffix = ".PDF" -> ".pdf"
      [] suffix = ".Json" -> ".json"
      [] OTHER -> suffix

\* document_analysis.py:264
max_length == 50000

\* len("\n\n[... contenido truncado ...]") (document_analysis.py:266)
TruncationMarkerLength == 30

\* The lengths of the texts the extractors yield.
TextLengths == {0, 1, max_length - 1, max_length, max_length + 1, max_length * 2}

\* A dispatch that follows the declared table: .ppt as .pptx, .ods as .xlsx,
\* .ics as text.
DeclaredBranch(ext) ==
    CASE ext = ".pdf" -> <<"extract_pdf">>
      [] ext \in {".xlsx", ".ods"} -> <<"extract_xlsx">>
      [] ext = ".xls" -> <<"extract_xls", "extract_xlsx">>
      [] ext = ".docx" -> <<"extract_docx">>
      [] ext = ".doc" -> <<"convert_doc_to_pdf", "extract_pdf">>
      [] ext \in {".pptx", ".ppt"} -> <<"convert_pptx_to_pdf", "extract_pdf">>
      [] ext = ".csv" -> <<"extract_csv">>
      [] ext \in {".txt", ".rtf", ".xml", ".ics"} -> <<"extract_text">>
      [] ext = ".html" -> <<"extract_html">>
      [] ext = ".json" -> <<"extract_json">>
      [] OTHER -> <<>>

\* The if/elif chain of execute (document_analysis.py:235-261): the calls made
\* for an extension, none for the else branch.
Branch(ext) ==
    CASE ext = ".pdf" -> <<"extract_pdf">>
      [] ext = ".xlsx" -> <<"extract_xlsx">>
      [] ext = ".xls" -> <<"extract_xls", "extract_xlsx">>
      [] ext = ".docx" -> <<"extract_docx">>
      [] ext = ".doc" -> <<"convert_doc_to_pdf", "extract_pdf">>
      [] ext = ".pptx" -> <<"convert_pptx_to_pdf", "extract_pdf">>
      [] ext = ".csv" -> <<"extract_csv">>
      [] ext \in {".txt", ".rtf"} -> <<"extract_text">>
      [] ext = ".html" -> <<"extract_html">>
      [] ext = ".json" -> <<"extract_json">>
      [] ext = ".xml" -> <<"extract_text">>
      [] OTHER -> <<>>

\* The calls that go to the network and can fail with a status
\* (document_analysis.py:50, 181, 215).
StatusCalls == {"download_file", "convert_doc_to_pdf", "convert_pptx_to_pdf"}

\* What execute is called with, by what happens to it: the suffix of the file
\* name, the length of the text its content yields, and the call that raises
\* (raised_by) with the exception it raises.  A .json content that is not
\* well-formed is one on which extract_json raises.
Documents ==
    {d \in [suffix : Suffixes, chars : TextLengths,
            raised_by : {"none", "download_file"} \cup {"convert_doc_to_pdf",
                         "convert_pptx_to_pdf", "extract_pdf", "extract_xlsx",
                         "extract_docx", "extract_csv", "extract_html", "extract_json"},
            exception : {"none", "HTTPStatusError", "Exception"}] :
        /\ (d.raised_by = "none") = (d.exception = "none")
        /\ d.exception = "HTTPStatusError" => d.raised_by \in StatusCalls
        /\ d.raised_by \notin {"none", "download_file"} =>
              \E i \in 1..Len(Branch(get_extension(d.suffix))) :
                  Branch(get_extension(d.suffix))[i] = d.raised_by}

\* The strings execute returns, by their kind: the extracted text with the
\* calls that produced it, how many characters of it, and whether the marker
\* follows; or one of the three messages.
Returned_text(branch, chars, marker) ==
    [text |-> "extracted", ext |-> "", branch |-> branch, chars |-> chars, marker |-> marker]

\* A message that leaves the extension out.
AnonymousMessage(kind, ext) ==
    [text |-> kind, ext |-> "", branch |-> <<>>, chars |-> 0, marker |-> FALSE]

Message(kind, ext) ==
    [text |-> kind, ext |-> ext, branch |-> <<>>, chars |-> 0, marker |-> FALSE]

\* An execute that returns the text whatever its length.
NoTruncate(branch, chars) == Returned_text(branch, chars, FALSE)

\* if len(text) > max_length: text = text[:max_length] + marker
\* (document_analysis.py:263-268).
Truncate(branch, chars) ==
    IF chars > max_length THEN Returned_text(branch, max_length, TRUE)
    ELSE Returned_text(branch, chars, FALSE)

\* DocumentAnalysisTool.execute (document_analysis.py:225-275).
DocumentExecute(d) ==
    LET ext == get_extension(d.suffix)
    IN IF d.raised_by = "download_file"
         THEN IF d.exception = "HTTPStatusError"
                THEN Message("Error al descargar el documento: <status>", "")
                ELSE Message("Error al analizar el documento: <e>", "")
       ELSE IF Branch(ext) = <<>>
         THEN Message("Formato de archivo no soportado: <ext>", ext)
       ELSE IF d.raised_by # "none"
         THEN IF d.exception = "HTTPStatusError"
                THEN Message("Error al descargar el documento: <status>", "")
                ELSE Message("Error al analizar el documento: <e>", "")
       ELSE Truncate(Branch(ext), d.chars)

\* await document_analysis.execute(file_url) (document_analysis.py:225-275).
document_execute ==
    /\ tool.name = "none"
    /\ \E d \in Documents :
         tool' = [name |-> "document_analysis", input |-> d, output |-> DocumentExecute(d)]
    /\ UNCHANGED <<varsTurn, varsLimiter, varsStore, varsHandler, varsShared, varsGlobals>>

NextDocument ==
    \/ document_execute
    \/ tool_return

(***************************************************************************)
(* The claims about the document tool, checked under SpecDocument.          *)
(***************************************************************************)

DocumentReturned == tool.name = "document_analysis"

Downloaded == tool.input.raised_by # "download_file"

Strings ==
    {"extracted", "Formato de archivo no soportado: <ext>",
     "Error al descargar el documento: <status>", "Error al analizar el documento: <e>"}

\* The file is a well-formed .json file: it was downloaded, and json.loads
\* accepts its content.
WellFormedJson ==
    /\ Downloaded
    /\ get_extension(tool.input.suffix) = ".json"
    /\ tool.input.raised_by = "none"

\* C27 (as stated): execute always returns a string; for an extension without
\* a branch the unsupported-format message naming it; for a well-formed .json
\* file the whole pretty-printed text.
C27_JsonPrettyPrinted ==
    DocumentReturned =>
        /\ tool.output.text \in Strings
        /\ (Downloaded /\ Branch(get_extension(tool.input.suffix)) = <<>>) =>
              /\ tool.output.text = "Formato de archivo no soportado: <ext>"
              /\ tool.output.ext = get_extension(tool.input.suffix)
        /\ WellFormedJson =>
              tool.output = Returned_text(<<"extract_json">>, tool.input.chars, FALSE)

\* C27 (amended): as before, with the pretty-printed text returned whole up to
\* max_length characters and as its first max_length characters and the marker
\* beyond.
C27_JsonPrettyPrintedUpToLimit ==
    DocumentReturned =>
        /\ tool.output.text \in Strings
        /\ (Downloaded /\ Branch(get_extension(tool.input.suffix)) = <<>>) =>
              /\ tool.output.text = "Formato de archivo no soportado: <ext>"
              /\ tool.output.ext = get_extension(tool.input.suffix)
        /\ WellFormedJson =>
              /\ tool.output.text = "extracted"
              /\ tool.output.branch = <<"extract_json">>
              /\ tool.input.chars <= max_length =>
                    tool.output.chars = tool.input.chars /\ ~tool.output.marker
              /\ tool.input.chars > max_length =>
                    tool.output.chars = max_length /\ tool.output.marker

C27_LongJsonCut ==
    /\ DocumentReturned
    /\ WellFormedJson
    /\ tool.input.suffix = ".Json"
    /\ tool.input.chars = max_length + 1
    /\ tool.output = Returned_text(<<"extract_json">>, max_length, TRUE)

\* C28: a downloaded file of a declared extension goes to the extractor of its
\* kind and never gets the unsupported-format message.
C28_DeclaredDispatched ==
    (DocumentReturned /\ Downloaded
        /\ get_extension(tool.input.suffix) \in SUPPORTED_EXTENSIONS) =>
        /\ tool.output.text # "Formato de archivo no soportado: <ext>"
        /\ tool.input.raised_by = "none" =>
              tool.output.branch = DeclaredBranch(get_extension(tool.input.suffix))

C28_PptUnsupported ==
    /\ DocumentReturned
    /\ tool.input.suffix = ".ppt"
    /\ Downloaded
    /\ tool.output = Message("Formato de archivo no soportado: <ext>", ".ppt")

\* The length of a returned string that is an extracted text.
ReturnedLength(output) ==
    output.chars + (IF output.marker THEN TruncationMarkerLength ELSE 0)

\* C29: an extracted text of at most 50,000 characters is returned whole, a
\* longer one as its first 50,000 characters and the marker; the returned
\* length is never above 50,000 plus the marker.
C29_Truncated ==
    (DocumentReturned /\ tool.output.text = "extracted") =>
        /\ tool.input.chars <= 50000 =>
              tool.output.chars = tool.input.chars /\ ~tool.output.marker
        /\ tool.input.chars > 50000 =>
              tool.output.chars = 50000 /\ tool.output.marker
        /\ ReturnedLength(tool.output) <= 50000 + TruncationMarkerLength

C29_LongPdfCut ==
    /\ DocumentReturned
    /\ tool.input.suffix = ".PDF"
    /\ tool.input.chars = 100000
    /\ tool.output.text = "extracted"
    /\ ReturnedLength(tool.output) = 50030

(***************************************************************************)
(* Part 6c.  WebSearchTool (tools/web_search.py).  The provider's response   *)
(* is an input; a content is kept by its length in characters.               *)
(***************************************************************************)

\* content[:500] (web_search.py:55)
snippet_length == 500

\* A value of the response's dictionary under an optional key.
Missing == [present |-> FALSE, text |-> ""]

Given(text) == [present |-> TRUE, text |-> text]

\* data.get("answer"): no key, an empty answer, an answer.
Answers == {Missing, Given(""), Given("answer")}

\* One entry of data["results"]: a title or none, a content of so many
\* characters, a URL.
ResultEntries ==
    [title : {Missing, Given("title")},
     chars : {0, snippet_length, snippet_length + 1},
     url : {"https://a", "https://b"}]

MaxResultEntries == 2

ResultLists ==
    UNION {[1..n -> ResultEntries] : n \in 0..MaxResultEntries}

\* The values of the max_results argument; 5 is the default (web_search.py:21).
MaxResultsValues == {0, 1, 2, 5}

\* What the call of the provider ends in: a response, or one of the
\* exceptions execute tells apart (web_search.py:61-69).
ProviderResponses ==
    {r \in [outcome : {"ok", "TimeoutException", "HTTPStatusError", "Exception"},
            answer : Answers, results : ResultLists, max_results : MaxResultsValues] :
        r.outcome # "ok" => (r.answer = Missing /\ r.results = <<>>)}

\* The strings execute returns: the answer, the list by its entries, or a
\* message.
WebResult(text, answer, entries) ==
    [text |-> text, answer |-> answer, entries |-> entries]

\* A snippet that is the whole content.
WholeContent(chars) == chars

\* result.get("content", "")[:500] (web_search.py:55), by its length.
Snippet(chars) == IF chars > snippet_length THEN snippet_length ELSE chars

\* results[:max_results] (web_search.py:53).
FirstResults(results, max_results) ==
    SubSeq(results, 1, IF Len(results) < max_results THEN Len(results) ELSE max_results)

\* f"{i}. **{title}**\n{content}\nFuente: {url}" (web_search.py:53-57).
Formatted(results, max_results) ==
    LET first == FirstResults(results, max_results)
    IN [i \in 1..Len(first) |->
          [number |-> i,
           title |-> IF first[i].title.present THEN first[i].title.text ELSE "Sin titulo",
           snippet |-> Snippet(first[i].chars),
           url |-> first[i].url]]

\* WebSearchTool.execute (web_search.py:21-69).
WebSearchExecute(r) ==
    IF r.outcome = "TimeoutException"
      THEN WebResult("Error: La busqueda tardo demasiado tiempo.", "", <<>>)
    ELSE IF r.outcome = "HTTPStatusError"
      THEN WebResult("Error en la busqueda web: <status>", "", <<>>)
    ELSE IF r.outcome = "Exception"
      THEN WebResult("Error en la busqueda: <e>", "", <<>>)
    ELSE IF r.answer.present /\ r.answer.text # ""
      THEN WebResult("answer", r.answer.text, <<>>)
    ELSE IF r.results = <<>>
      THEN WebResult("No se encontraron resultados para esta busqueda.", "", <<>>)
    ELSE WebResult("list", "", Formatted(r.results, r.max_results))

\* await web_search.execute(query, max_results) (web_search.py:21-69).
web_search_execute ==
    /\ tool.name = "none"
    /\ \E r \in ProviderResponses :
         tool' = [name |-> "web_search", input |-> r, output |-> WebSearchExecute(r)]
    /\ UNCHANGED <<varsTurn, varsLimiter, varsStore, varsHandler, varsShared, varsGlobals>>

NextWebSearch ==
    \/ web_search_execute
    \/ tool_return

(***************************************************************************)
(* The claim about the search tool, checked under SpecWebSearch.            *)
(***************************************************************************)

\* execute has returned for a response of the provider.
WebSearchResponded == tool.name = "web_search" /\ tool.input.outcome = "ok"

AnswerPresent == tool.input.answer.present /\ tool.input.answer.text # ""

\* C30: with an answer in the response execute returns it unchanged; without
\* one it returns the entries numbered from 1, at most max_results of them and
\* in the order of the response, each with its title, at most 500 characters
\* from the start of its content and its URL; without answer and results it
\* returns the no-results message.
C30_AnswerElseNumberedList ==
    WebSearchResponded =>
        LET input == tool.input
            output == tool.output
        IN /\ AnswerPresent => output = WebResult("answer", input.answer.text, <<>>)
           /\ (~AnswerPresent /\ input.results = <<>>) =>
                 output = WebResult("No se encontraron resultados para esta busqueda.", "", <<>>)
           /\ (~AnswerPresent /\ input.results # <<>>) =>
                 /\ output.text = "list"
                 /\ Len(output.entries) <= input.max_results
                 /\ Len(output.entries) <= Len(input.results)
                 /\ Len(output.entries) \in {input.max_results, Len(input.results)}
                 /\ \A i \in 1..Len(output.entries) :
                       /\ output.entries[i].number = i
                       /\ input.results[i].title.present =>
                             output.entries[i].title = input.results[i].title.text
                       /\ output.entries[i].snippet <= 500
                       /\ output.entries[i].snippet <= input.results[i].chars
                       /\ output.entries[i].snippet \in {500, input.results[i].chars}
                       /\ output.entries[i].url = input.results[i].url

C30_ListCutAndSnipped ==
    /\ WebSearchResponded
    /\ tool.input.answer = Given("")
    /\ Len(tool.input.results) = 2
    /\ tool.input.max_results = 1
    /\ tool.input.results[1].chars = 501
    /\ tool.output.text = "list"
    /\ Len(tool.output.entries) = 1
    /\ tool.output.entries[1].snippet = 500

(***************************************************************************)
(* Part 7.  The module globals of database.py: the cache client, the        *)
(* connection pool, and the request log written through the pool, each with *)
(* concurrent callers in one process.                                       *)
(***************************************************************************)

\* Concurrent callers (tasks of one event loop).
NumProcs == 3
Procs == 1..NumProcs

\* log_request calls that may start in one run.
MaxLogs == 3

IdleRedisCaller == [pc |-> "idle", op |-> "none", value |-> "None"]

IdlePoolCaller == [pc |-> "idle", op |-> "none", pool |-> 0]

IdleLogCaller == [pc |-> "idle", existing |-> 0]

\* The module after import (database.py:14-15); what the settings and the
\* table's schema are is fixed for the run and found at their first use.
InitGlobals ==
    /\ settings = "unread"
    /\ _redis_client = "None"
    /\ redis_server = [connected |-> FALSE, failed |-> FALSE]
    /\ redis_caller = [p \in Procs |-> IdleRedisCaller]
    /\ _db_pool = 0
    /\ pools = 0
    /\ pool_caller = [p \in Procs |-> IdlePoolCaller]
    /\ logs_table = <<>>
    /\ logs_schema = "unread"
    /\ log_caller = [p \in Procs |-> IdleLogCaller]
    /\ logged = [started |-> 0, done |-> 0]

(***************************************************************************)
(* Part 7a.  init_redis and get_redis (database.py:49-76).                  *)
(***************************************************************************)

RedisReturns(p, op, value) ==
    redis_caller' = [redis_caller EXCEPT ![p] = [pc |-> "returned", op |-> op, value |-> value]]

\* init_redis up to its await (database.py:49-64): the test of the setting,
\* the test of the global, and redis.from_url, which assigns the global before
\* the ping.
InitRedisToPing(p, op) ==
    \E url \in (IF settings = "unread" THEN {"set", "unset"} ELSE {settings}) :
        /\ settings' = url
        /\ IF url = "unset"
             THEN /\ RedisReturns(p, op, "None")
                  /\ UNCHANGED <<_redis_client, redis_server>>
           ELSE IF _redis_client = "None"
             THEN \/ /\ _redis_client' = "client"
                     /\ redis_caller' = [redis_caller EXCEPT ![p] =
                                           [pc |-> "ping", op |-> op, value |-> "None"]]
                     /\ UNCHANGED redis_server
                  \/ /\ RedisReturns(p, op, "None")
                     /\ redis_server' = [redis_server EXCEPT !.failed = TRUE]
                     /\ UNCHANGED _redis_client
           ELSE /\ RedisReturns(p, op, _redis_client)
                /\ UNCHANGED <<_redis_client, redis_server>>

\* await init_redis() (database.py:49-64; main.py:60, slack_handler.py:209).
init_redis(p) ==
    /\ redis_caller[p].pc = "idle"
    /\ InitRedisToPing(p, "init_redis")
    /\ UNCHANGED <<_db_pool, pools, pool_caller, logs_table, logs_schema, log_caller, logged>>
    /\ UNCHANGED <<varsTurn, varsLimiter, varsStore, varsHandler, varsShared, varsTools>>

\* await get_redis() (database.py:72-76).
get_redis(p) ==
    /\ redis_caller[p].pc = "idle"
    /\ IF _redis_client = "None"
         THEN InitRedisToPing(p, "get_redis")
         ELSE /\ RedisReturns(p, "get_redis", _redis_client)
              /\ UNCHANGED <<settings, _redis_client, redis_server>>
    /\ UNCHANGED <<_db_pool, pools, pool_caller, logs_table, logs_schema, log_caller, logged>>
    /\ UNCHANGED <<varsTurn, varsLimiter, varsStore, varsHandler, varsShared, varsTools>>

\* await _redis_client.ping() and the rest of init_redis (database.py:64-69):
\* the except clause returns None and leaves the global as from_url set it.
ping(p) ==
    /\ redis_caller[p].pc = "ping"
    /\ \/ /\ redis_server' = [redis_server EXCEPT !.connected = TRUE]
          /\ RedisReturns(p, redis_caller[p].op, _redis_client)
          /\ UNCHANGED _redis_client
       \/ /\ redis_server' = [redis_server EXCEPT !.failed = TRUE]
          /\ UNCHANGED _redis_client
          /\ RedisReturns(p, redis_caller[p].op, "None")
    /\ UNCHANGED <<settings, _db_pool, pools, pool_caller, logs_table, logs_schema,
                   log_caller, logged>>
    /\ UNCHANGED <<varsTurn, varsLimiter, varsStore, varsHandler, varsShared, varsTools>>

\* The caller has the client, or None.
redis_return(p) ==
    /\ redis_caller[p].pc = "returned"
    /\ redis_caller' = [redis_caller EXCEPT ![p] = IdleRedisCaller]
    /\ UNCHANGED <<settings, _redis_client, redis_server, _db_pool, pools, pool_caller,
                   logs_table, logs_schema, log_caller, logged>>
    /\ UNCHANGED <<varsTurn, varsLimiter, varsStore, varsHandler, varsShared, varsTools>>

NextRedis ==
    \/ \E p \in Procs : init_redis(p)
    \/ \E p \in Procs : get_redis(p)
    \/ \E p \in Procs : ping(p)
    \/ \E p \in Procs : redis_return(p)

\* The cache is not configured, or no connection to it has been made.
CacheUnavailable == settings = "unset" \/ ~redis_server.connected

\* C37: while the cache is not configured or has not been connected, every
\* get_redis and init_redis call returns None.
C37_NoneWhenUnavailable ==
    \A p \in Procs :
        (redis_caller[p].pc = "returned" /\ CacheUnavailable) =>
            redis_caller[p].value = "None"

\* The only connection attempt failed at the ping, no other call was in
\* flight, and a later get_redis returned the client object.
C37_ClientAfterFailedPing ==
    /\ settings = "set"
    /\ redis_server = [connected |-> FALSE, failed |-> TRUE]
    /\ \E p \in Procs :
         /\ redis_caller[p] = [pc |-> "returned", op |-> "get_redis", value |-> "client"]
         /\ \A q \in Procs \ {p} : redis_caller[q].pc = "idle"

(***************************************************************************)
(* Part 7b.  init_db_pool and get_db_pool (database.py:18-37).              *)
(***************************************************************************)

\* if _db_pool is None (database.py:21 and 35): a caller that finds a pool
\* returns it, one that finds none goes on to create_pool.
FindPool(p, op) ==
    /\ pool_caller[p].pc = "idle"
    /\ pool_caller' = [pool_caller EXCEPT ![p] =
                         IF _db_pool = 0
                           THEN [pc |-> "create_pool", op |-> op, pool |-> 0]
                           ELSE [pc |-> "returned", op |-> op, pool |-> _db_pool]]
    /\ UNCHANGED <<_db_pool, pools>>
    /\ UNCHANGED <<settings, _redis_client, redis_server, redis_caller, logs_table,
                   logs_schema, log_caller, logged>>
    /\ UNCHANGED <<varsTurn, varsLimiter, varsStore, varsHandler, varsShared, varsTools>>

\* await init_db_pool() (database.py:18-21).
init_db_pool(p) == FindPool(p, "init_db_pool")

\* await get_db_pool() (database.py:33-37).
get_db_pool(p) == FindPool(p, "get_db_pool")

\* _db_pool = await asyncpg.create_pool(...); return _db_pool
\* (database.py:22-30): the pool made by this call is assigned whatever the
\* global holds by then; a failure leaves the call as an exception.
create_pool(p) ==
    /\ pool_caller[p].pc = "create_pool"
    /\ \/ /\ pools' = pools + 1
          /\ _db_pool' = pools + 1
          /\ pool_caller' = [pool_caller EXCEPT ![p] =
                               [@ EXCEPT !.pc = "returned", !.pool = pools + 1]]
       \/ /\ pool_caller' = [pool_caller EXCEPT ![p] = [@ EXCEPT !.pc = "raised"]]
          /\ UNCHANGED <<_db_pool, pools>>
    /\ UNCHANGED <<settings, _redis_client, redis_server, redis_caller, logs_table,
                   logs_schema, log_caller, logged>>
    /\ UNCHANGED <<varsTurn, varsLimiter, varsStore, varsHandler, varsShared, varsTools>>

\* The caller has its pool, or the exception.
pool_return(p) ==
    /\ pool_caller[p].pc \in {"returned", "raised"}
    /\ pool_caller' = [pool_caller EXCEPT ![p] = IdlePoolCaller]
    /\ UNCHANGED <<_db_pool, pools>>
    /\ UNCHANGED <<settings, _redis_client, redis_server, redis_caller, logs_table,
                   logs_schema, log_caller, logged>>
    /\ UNCHANGED <<varsTurn, varsLimiter, varsStore, varsHandler, varsShared, varsTools>>

NextPool ==
    \/ \E p \in Procs : init_db_pool(p)
    \/ \E p \in Procs : get_db_pool(p)
    \/ \E p \in Procs : create_pool(p)
    \/ \E p \in Procs : pool_return(p)

\* C39: at most one pool is ever created, and every caller that gets a pool
\* gets that one.
C39_OnePool ==
    /\ pools <= 1
    /\ \A p \in Procs : pool_caller[p].pc = "returned" => pool_caller[p].pool = 1

\* Two callers found no pool, each created one, and each returned its own.
C39_TwoPools ==
    /\ pools = 2
    /\ _db_pool = 2
    /\ \E p, q \in Procs :
         /\ pool_caller[p] = [pc |-> "returned", op |-> "get_db_pool", pool |-> 1]
         /\ pool_caller[q] = [pc |-> "returned", op |-> "get_db_pool", pool |-> 2]

(***************************************************************************)
(* Part 7c.  LogsManager.log_request (database.py:188-224) for one userid.  *)
(***************************************************************************)

LogStep(p, pc2, existing) ==
    log_caller' = [log_caller EXCEPT ![p] = [pc |-> pc2, existing |-> existing]]

\* await self.logs_manager.log_request(...) to the first statement
\* (database.py:188-194; agent.py:219-221).
log_request_call(p) ==
    /\ log_caller[p].pc = "idle"
    /\ logged.started < MaxLogs
    /\ LogStep(p, "upsert", 0)
    /\ logged' = [logged EXCEPT !.started = @ + 1]
    /\ UNCHANGED <<logs_table, logs_schema>>
    /\ UNCHANGED <<settings, _redis_client, redis_server, redis_caller, _db_pool, pools,
                   pool_caller>>
    /\ UNCHANGED <<varsTurn, varsLimiter, varsStore, varsHandler, varsShared, varsTools>>

\* UPDATE ... SET peticiones = peticiones + 1 WHERE userid = $1: every row of
\* the identity.
Incremented(table) == [j \in 1..Len(table) |-> table[j] + 1]

\* INSERT ... ON CONFLICT (userid) DO UPDATE SET peticiones = peticiones + 1
\* (database.py:195-204): one atomic statement under a unique constraint; an
\* error without one (database.py:205), which sends the call to the fallback.
upsert(p) ==
    /\ log_caller[p].pc = "upsert"
    /\ \E schema \in (IF logs_schema = "unread" THEN {"unique", "plain"} ELSE {logs_schema}) :
         /\ logs_schema' = schema
         /\ IF schema = "unique"
              THEN /\ logs_table' = IF logs_table = <<>> THEN <<1>> ELSE Incremented(logs_table)
                   /\ LogStep(p, "returned", 0)
                   /\ logged' = [logged EXCEPT !.done = @ + 1]
              ELSE /\ LogStep(p, "select", 0)
                   /\ UNCHANGED <<logs_table, logged>>
    /\ UNCHANGED <<settings, _redis_client, redis_server, redis_caller, _db_pool, pools,
                   pool_caller>>
    /\ UNCHANGED <<varsTurn, varsLimiter, varsStore, varsHandler, varsShared, varsTools>>

\* existing = await conn.fetchval("SELECT peticiones ...") and the branch on
\* it (database.py:207-211, 216).
select(p) ==
    /\ log_caller[p].pc = "select"
    /\ IF logs_table = <<>> THEN LogStep(p, "insert", 0)
       ELSE LogStep(p, "update", logs_table[1])
    /\ UNCHANGED <<logs_table, logs_schema, logged>>
    /\ UNCHANGED <<settings, _redis_client, redis_server, redis_caller, _db_pool, pools,
                   pool_caller>>
    /\ UNCHANGED <<varsTurn, varsLimiter, varsStore, varsHandler, varsShared, varsTools>>

\* The UPDATE of the fallback (database.py:212-215).
update(p) ==
    /\ log_caller[p].pc = "update"
    /\ logs_table' = Incremented(logs_table)
    /\ LogStep(p, "returned", log_caller[p].existing)
    /\ logged' = [logged EXCEPT !.done = @ + 1]
    /\ UNCHANGED logs_schema
    /\ UNCHANGED <<settings, _redis_client, redis_server, redis_caller, _db_pool, pools,
                   pool_caller>>
    /\ UNCHANGED <<varsTurn, varsLimiter, varsStore, varsHandler, varsShared, varsTools>>

\* The INSERT of the fallback (database.py:217-222), on a table without the
\* constraint.
insert_row(p) ==
    /\ log_caller[p].pc = "insert"
    /\ logs_table' = Append(logs_table, 1)
    /\ LogStep(p, "returned", 0)
    /\ logged' = [logged EXCEPT !.done = @ + 1]
    /\ UNCHANGED logs_schema
    /\ UNCHANGED <<settings, _redis_client, redis_server, redis_caller, _db_pool, pools,
                   pool_caller>>
    /\ UNCHANGED <<varsTurn, varsLimiter, varsStore, varsHandler, varsShared, varsTools>>

\* A statement of the fallback fails (database.py:223-224): the failure is
\* logged as a warning and nothing is written.
log_failure(p) ==
    /\ log_caller[p].pc \in {"select", "update", "insert"}
    /\ LogStep(p, "failed", 0)
    /\ UNCHANGED <<logs_table, logs_schema, logged>>
    /\ UNCHANGED <<settings, _redis_client, redis_server, redis_caller, _db_pool, pools,
                   pool_caller>>
    /\ UNCHANGED <<varsTurn, varsLimiter, varsStore, varsHandler, varsShared, varsTools>>

\* log_request returns None either way.
log_return(p) ==
    /\ log_caller[p].pc \in {"returned", "failed"}
    /\ LogStep(p, "idle", 0)
    /\ UNCHANGED <<logs_table, logs_schema, logged>>
    /\ UNCHANGED <<settings, _redis_client, redis_server, redis_caller, _db_pool, pools,
                   pool_caller>>
    /\ UNCHANGED <<varsTurn, varsLimiter, varsStore, varsHandler, varsShared, varsTools>>

NextLogs ==
    \/ \E p \in Procs : log_request_call(p)
    \/ \E p \in Procs : upsert(p)
    \/ \E p \in Procs : select(p)
    \/ \E p \in Procs : update(p)
    \/ \E p \in Procs : insert_row(p)
    \/ \E p \in Procs : log_failure(p)
    \/ \E p \in Procs : log_return(p)

\* No log_request call is between its first statement and its return.
LogQuiet == \A p \in Procs : log_caller[p].pc = "idle"

\* C38: when no call is in flight, the table holds one row for the identity
\* and its count is the number of calls whose logging succeeded (no row when
\* there was none).
C38_OneRowCountsTurns ==
    LogQuiet => logs_table = (IF logged.done = 0 THEN <<>> ELSE <<logged.done>>)

\* On a table without the unique constraint two concurrent calls both found
\* no row and both inserted one.
C38_TwoRows ==
    /\ LogQuiet
    /\ logs_schema = "plain"
    /\ logged.done = 2
    /\ logs_table = <<1, 1>>

(***************************************************************************)
(* The specifications.                                                     *)
(***************************************************************************)

\* All components start idle and empty.
Init ==
    /\ InitTurn /\ InitLimiter /\ InitStore /\ InitHandler /\ InitShared /\ InitTools
    /\ InitGlobals

\* The turn orchestrator, one turn at a time.
Spec ==
    /\ Init
    /\ [][NextTurn]_vars

\* The transport adapter with the orchestrator behind it, one event at a time.
SpecHandler ==
    /\ Init
    /\ [][NextHandler]_vars

\* Operations of several identities on the shared table and keyspace.
SpecShared ==
    /\ Init
    /\ [][NextShared]_vars

\* Calls of the calculator, one at a time.
SpecCalculator ==
    /\ Init
    /\ [][NextCalculator]_vars

\* Calls of the document tool, one at a time.
SpecDocument ==
    /\ Init
    /\ [][NextDocument]_vars

\* Calls of the search tool, one at a time.
SpecWebSearch ==
    /\ Init
    /\ [][NextWebSearch]_vars

\* Concurrent callers of init_redis and get_redis.
SpecRedis ==
    /\ Init
    /\ [][NextRedis]_vars

\* Concurrent callers of init_db_pool and get_db_pool.
SpecPool ==
    /\ Init
    /\ [][NextPool]_vars

\* Concurrent log_request calls for one userid.
SpecLogs ==
    /\ Init
    /\ [][NextLogs]_vars

\* The rate limiter under concurrent callers.
SpecLimiter ==
    /\ Init
    /\ [][NextLimiter]_vars

\* The rate limiter when the backend's clock keeps running and every caller
\* that can take a step is scheduled in the end.
SpecLimiterLive ==
    /\ Init
    /\ [][NextLimiter]_vars
    /\ WF_vars(tick)
    /\ \A c \in Callers : WF_vars(CallerNext(c))

\* The conversation store under concurrent tasks.
SpecStore ==
    /\ Init
    /\ [][NextStore]_vars

\* One writer and concurrent readers, without storage errors: the entry's
\* time-to-live runs out, the clock advances, and every task that can take a
\* step is scheduled in the end (readers keep calling get_history).
SpecStoreLive ==
    /\ Init
    /\ [][NextStoreLive]_vars
    /\ WF_vars(cache_expire)
    /\ WF_vars(clock)
    /\ WF_vars(WriterNext)
    /\ \A t \in Readers : WF_vars(ReaderNext(t))

====
